---------------------------- MODULE Spec2Model ----------------------------
(***************************************************************************)
(* Rapido'Devis quote parser (scripts/pdf_parser.py) and its two batch     *)
(* callers (scripts/test_parser_batch.py, scripts/etl_pipeline.py).        *)
(*                                                                         *)
(* Texts are TLA+ strings, read character by character: every regular      *)
(* expression of the parser is an operator that computes the match the     *)
(* way Python's backtracking matcher does.  Python dicts are records that  *)
(* hold only the keys that were set; an optional value (None or a value)   *)
(* is a sequence of length 0 or 1.  A float is an integer number of        *)
(* hundredths.                                                             *)
(***************************************************************************)
EXTENDS Integers, Sequences, FiniteSets, TLC

(***************************************************************************)
(* Characters and character classes of Python's re on str patterns.        *)
(***************************************************************************)
Ch(s, i) == SubSeq(s, i, i)

\* F(e), with e evaluated once, before F reads it
Bind(e, F(_)) == CHOOSE r \in {F(x) : x \in {e}} : TRUE

None == << >>

Some(v) == << v >>

Digit == {"0", "1", "2", "3", "4", "5", "6", "7", "8", "9"}

\* \s, and the characters str.strip() and str.split() treat as blank
Blank == {" ", "\t", "\n", "\r", "\f"}

AsciiUpper == {"A", "B", "C", "D", "E", "F", "G", "H", "I", "J", "K", "L", "M",
               "N", "O", "P", "Q", "R", "S", "T", "U", "V", "W", "X", "Y", "Z"}

AsciiLower == {"a", "b", "c", "d", "e", "f", "g", "h", "i", "j", "k", "l", "m",
               "n", "o", "p", "q", "r", "s", "t", "u", "v", "w", "x", "y", "z"}

\* the range à-ÿ (U+00E0 to U+00FF)
LowerAccent == {"à", "á", "â", "ã", "ä", "å", "æ", "ç", "è", "é", "ê", "ë",
                "ì", "í", "î", "ï", "ð", "ñ", "ò", "ó", "ô", "õ", "ö", "÷",
                "ø", "ù", "ú", "û", "ü", "ý", "þ", "ÿ"}

\* the range À-ß (U+00C0 to U+00DF)
UpperAccent == {"À", "Á", "Â", "Ã", "Ä", "Å", "Æ", "Ç", "È", "É", "Ê", "Ë",
                "Ì", "Í", "Î", "Ï", "Ð", "Ñ", "Ò", "Ó", "Ô", "Õ", "Ö", "×",
                "Ø", "Ù", "Ú", "Û", "Ü", "Ý", "Þ", "ß"}

\* [A-Z] and the range U+00C0 to U+0178, which holds the lower-case accented
\* letters too (the letters above U+00FF are left out of the alphabet)
NameFirst == AsciiUpper \cup UpperAccent \cup LowerAccent

\* [a-zà-ÿ]
NameRest == AsciiLower \cup LowerAccent

\* the capital letters of the category pattern
CatFirst == AsciiUpper \cup {"À", "Â", "Ä", "É", "È", "Ê", "Ë", "Ï", "Î", "Ô",
                             "Ù", "Û", "Ü", "Æ", "Ç"}

\* the other letters of the category pattern, \s and /
CatRest == AsciiLower \cup Blank \cup {"à", "â", "ä", "é", "è", "ê", "ë", "ï",
                                       "î", "ô", "ù", "û", "ü", "ÿ", "æ",
                                       "ç", "/"}

\* \w: letters, digits (of any script, so ² too) and the underscore
Word == AsciiUpper \cup AsciiLower \cup UpperAccent \cup LowerAccent \cup Digit
        \cup {"_", "²"}

DigitDot == Digit \cup {"."}

DigitComma == Digit \cup {","}

DigitBlankComma == Digit \cup Blank \cup {","}

(***************************************************************************)
(* Texts.  Positions are 1-based; position Len(s) + 1 is the end of the    *)
(* text.                                                                   *)
(***************************************************************************)
\* the end of the longest run of characters of class C that starts at i
RECURSIVE RunEnd(_, _, _)
RunEnd(s, i, C) ==
    IF i <= Len(s) /\ Ch(s, i) \in C THEN RunEnd(s, i + 1, C) ELSE i

\* the end of the longest run of characters outside class C that starts at i
RECURSIVE RunEndNot(_, _, _)
RunEndNot(s, i, C) ==
    IF i <= Len(s) /\ Ch(s, i) \notin C THEN RunEndNot(s, i + 1, C) ELSE i

\* the literal lit stands at position i of s
LitAt(s, i, lit) ==
    /\ i >= 1
    /\ i + Len(lit) - 1 <= Len(s)
    /\ SubSeq(s, i, i + Len(lit) - 1) = lit

\* str.strip()
RECURSIVE RStripEnd(_, _)
RStripEnd(s, j) ==
    IF j >= 1 /\ Ch(s, j) \in Blank THEN RStripEnd(s, j - 1) ELSE j

Strip(text) ==
    Bind(text, LAMBDA s :
        Bind(<< RunEnd(s, 1, Blank), RStripEnd(s, Len(s)) >>, LAMBDA ab :
            IF ab[1] > ab[2] THEN "" ELSE SubSeq(s, ab[1], ab[2])))

\* str.split(): the blank-separated parts of s
RECURSIVE SplitFrom(_, _)
SplitFrom(s, i) ==
    Bind(RunEnd(s, i, Blank), LAMBDA a :
        IF a > Len(s) THEN << >>
        ELSE Bind(RunEndNot(s, a, Blank), LAMBDA b :
                 << SubSeq(s, a, b - 1) >> \o SplitFrom(s, b)))

Split(text) == Bind(text, LAMBDA s : SplitFrom(s, 1))

\* str.split(maxsplit=1): the first part, and the rest with its leading
\* blanks removed
SplitOnce(text) ==
    Bind(text, LAMBDA s :
    Bind(RunEnd(s, 1, Blank), LAMBDA a :
    Bind(RunEndNot(s, a, Blank), LAMBDA b :
    Bind(RunEnd(s, b, Blank), LAMBDA c :
        IF a > Len(s) THEN << >>
        ELSE IF c > Len(s) THEN << SubSeq(s, a, b - 1) >>
        ELSE << SubSeq(s, a, b - 1), SubSeq(s, c, Len(s)) >>))))

\* sep.join(parts)
RECURSIVE JoinWith(_, _)
JoinWith(parts, sep) ==
    IF Len(parts) = 0 THEN ""
    ELSE IF Len(parts) = 1 THEN parts[1]
    ELSE parts[1] \o sep \o JoinWith(Tail(parts), sep)

\* str.replace(old, new) for a one-character old
RECURSIVE ReplaceFrom(_, _, _, _)
ReplaceFrom(s, i, old, new) ==
    IF i > Len(s) THEN ""
    ELSE (IF Ch(s, i) = old THEN new ELSE Ch(s, i))
         \o ReplaceFrom(s, i + 1, old, new)

Replace(text, old, new) == Bind(text, LAMBDA s : ReplaceFrom(s, 1, old, new))

\* lit in s, for a literal lit
Contains(s, lit) == \E i \in 1 .. Len(s) : LitAt(s, i, lit)

\* str.split('\n'): the lines of a text (always at least one)
RECURSIVE SplitLinesFrom(_, _)
SplitLinesFrom(s, i) ==
    Bind(RunEndNot(s, i, {"\n"}), LAMBDA e :
        IF e > Len(s) THEN << SubSeq(s, i, Len(s)) >>
        ELSE << SubSeq(s, i, e - 1) >> \o SplitLinesFrom(s, e + 1))

SplitLines(text) == Bind(text, LAMBDA s : SplitLinesFrom(s, 1))

\* the least element of a non-empty set of numbers
Least(S) == Bind(S, LAMBDA T : CHOOSE e \in T : \A f \in T : e <= f)

(***************************************************************************)
(* Numbers and dates.                                                      *)
(***************************************************************************)
DigitVal(c) ==
    CASE c = "0" -> 0 [] c = "1" -> 1 [] c = "2" -> 2 [] c = "3" -> 3
      [] c = "4" -> 4 [] c = "5" -> 5 [] c = "6" -> 6 [] c = "7" -> 7
      [] c = "8" -> 8 [] c = "9" -> 9

\* int() of a run of digits
RECURSIVE IntUpTo(_, _)
IntUpTo(s, n) ==
    IF n = 0 THEN 0 ELSE 10 * IntUpTo(s, n - 1) + DigitVal(Ch(s, n))

IntOf(text) == Bind(text, LAMBDA s : IntUpTo(s, Len(s)))

\* float(s), in hundredths, for a text of digits and dots: a ValueError
\* (ok = FALSE) unless s holds at most one dot and at least one digit.
\* Blanks around the number are accepted, as float() accepts them.
FloatOf(s) ==
    Bind(RunEnd(s, 1, Digit), LAMBDA d :
    Bind(IF LitAt(s, d, ".") THEN RunEnd(s, d + 1, Digit) ELSE d, LAMBDA f :
        IF f = Len(s) + 1 /\ (d - 1) + (IF f > d THEN f - d - 1 ELSE 0) >= 1
        THEN [ok |-> TRUE,
              v  |-> 100 * IntOf(SubSeq(s, 1, d - 1))
                     + IntOf(SubSeq(SubSeq(s, d + 1, f - 1) \o "00", 1, 2))]
        ELSE [ok |-> FALSE, v |-> 0]))

Float(raw) == Bind(Strip(raw), LAMBDA s : FloatOf(s))

IsLeap(y) == (y % 4 = 0 /\ y % 100 # 0) \/ y % 400 = 0

DaysIn(m, y) ==
    CASE m \in {1, 3, 5, 7, 8, 10, 12} -> 31
      [] m \in {4, 6, 9, 11} -> 30
      [] m = 2 -> IF IsLeap(y) THEN 29 ELSE 28
      [] OTHER -> 0

(***************************************************************************)
(* Regular expressions.  A pattern is the sequence of its items, written   *)
(* in the order of the pattern's text.  Match and Search compute the match *)
(* Python's backtracking matcher returns.  A way through the pattern is a  *)
(* thread: the position reached, the bounds of the groups closed, and the  *)
(* rank of the choice taken at each item that leaves one (a longer run     *)
(* first for a greedy item, a shorter first for a lazy one, the            *)
(* alternatives from left to right, one more turn of a repetition before   *)
(* leaving it).  The backtracking matcher returns the way whose ranks come *)
(* first in lexicographic order.                                           *)
(***************************************************************************)
\* a literal text
Lit(v) == << [t |-> "lit", v |-> v] >>

\* [C]{min,most}; most = None is no upper limit; neg is [^C]; lazy is the
\* ? after the quantifier
Run(C, neg, min, most, lazy) ==
    << [t |-> "run", c |-> C, neg |-> neg, min |-> min, most |-> most,
        lazy |-> lazy] >>

\* [C]
One(C) == Run(C, FALSE, 1, Some(1), FALSE)

\* [C]{n}
Times(C, n) == Run(C, FALSE, n, Some(n), FALSE)

\* [C]+
Plus(C) == Run(C, FALSE, 1, None, FALSE)

\* [C]*
Star(C) == Run(C, FALSE, 0, None, FALSE)

\* [^C]+
PlusNot(C) == Run(C, TRUE, 1, None, FALSE)

\* [^C]*
StarNot(C) == Run(C, TRUE, 0, None, FALSE)

\* .+? (the dot matches no line break)
LazyDots == Run({"\n"}, TRUE, 1, None, TRUE)

\* (p), the capturing group number n
Group(n, p) == << [t |-> "open", n |-> n] >> \o p \o << [t |-> "close", n |-> n] >>

\* p1|p2|...
Alt(ps) == << [t |-> "alt", ps |-> ps] >>

\* (?:p){min,most}
Rep(p, min, most) == << [t |-> "rep", p |-> p, min |-> min, most |-> most] >>

\* ^ (without re.MULTILINE)
Bol == << [t |-> "bol"] >>

\* $ (without re.MULTILINE): the end of the text, or the line break that
\* ends it
Eol == << [t |-> "eol"] >>

\* no group has taken part yet
NoGroups == << None, None, None, None, None, None, None >>

Thread(i) == [i |-> i, caps |-> NoGroups, key |-> << >>]

\* the ends a run item may have when it starts at i
RunEnds(it, s, i) ==
    {j \in i + it.min ..
           (IF it.most = None \/ i + it.most[1] > Len(s) + 1
            THEN Len(s) + 1 ELSE i + it.most[1]) :
        \A k \in i .. j - 1 : (Ch(s, k) \in it.c) # it.neg}

RECURSIVE Threads(_, _, _), StepItem(_, _, _), RepThreads(_, _, _, _, _)
\* the threads that leave the pattern pat, entered by the threads T
Threads(pat, s, T) ==
    IF T = {} THEN {}
    ELSE IF Len(pat) = 0 THEN T
    ELSE IF Len(pat) = 1 THEN UNION {StepItem(pat[1], s, th) : th \in T}
    ELSE Threads(SubSeq(pat, Len(pat) \div 2 + 1, Len(pat)), s,
                 Threads(SubSeq(pat, 1, Len(pat) \div 2), s, T))

\* the threads that leave the item it, entered by the thread th
StepItem(it, s, th) ==
    CASE it.t = "lit" ->
           IF LitAt(s, th.i, it.v)
           THEN {[th EXCEPT !.i = @ + Len(it.v)]} ELSE {}
      [] it.t = "bol" -> IF th.i = 1 THEN {th} ELSE {}
      [] it.t = "eol" ->
           IF th.i = Len(s) + 1 \/ (th.i = Len(s) /\ Ch(s, th.i) = "\n")
           THEN {th} ELSE {}
      [] it.t = "open" -> {[th EXCEPT !.caps[it.n] = << th.i, 0 >>]}
      [] it.t = "close" -> {[th EXCEPT !.caps[it.n] = << @[1], th.i >>]}
      [] it.t = "run" ->
           {[th EXCEPT !.i = j,
                       !.key = Append(@, IF it.lazy THEN j ELSE Len(s) + 1 - j)]
              : j \in RunEnds(it, s, th.i)}
      [] it.t = "alt" ->
           UNION {Threads(it.ps[n], s, {[th EXCEPT !.key = Append(@, n)]})
                    : n \in 1 .. Len(it.ps)}
      [] it.t = "rep" -> RepThreads(it.p, it.min, it.most, s, {th})

\* the threads that leave (?:p){min,most}, entered by the threads T
RepThreads(p, min, most, s, T) ==
    LET Stop  == IF min = 0
                 THEN {[th EXCEPT !.key = Append(@, 1)] : th \in T} ELSE {}
        Again == IF most = None \/ most[1] > 0
                 THEN Threads(p, s, {[th EXCEPT !.key = Append(@, 0)]
                                       : th \in T})
                 ELSE {}
    IN  IF Again = {} THEN Stop
        ELSE Stop \cup RepThreads(p, IF min > 0 THEN min - 1 ELSE 0,
                                  IF most = None THEN None
                                  ELSE Some(most[1] - 1), s, Again)

\* the ranks a come before the ranks b
LexLess(a, b) ==
    \E n \in 1 .. Len(a) :
        /\ n <= Len(b)
        /\ a[n] < b[n]
        /\ \A m \in 1 .. n - 1 : a[m] = b[m]

NoMatch == [ok |-> FALSE, g |-> << >>, b |-> 0, e |-> 0]

\* the match object of the pattern at position i: g[n] is group(n), None
\* for a group that took no part; b and e are start() and end()
MatchAt(pat, s, i) ==
    Bind(Threads(pat, s, {Thread(i)}), LAMBDA F :
        IF F = {} THEN NoMatch
        ELSE Bind(CHOOSE th \in F :
                     \A o \in F : o.key = th.key \/ LexLess(th.key, o.key),
                  LAMBDA th :
                 [ok |-> TRUE,
                  g  |-> [n \in 1 .. Len(th.caps) |->
                             IF th.caps[n] = None THEN None
                             ELSE SubSeq(s, th.caps[n][1], th.caps[n][2] - 1)],
                  b  |-> i,
                  e  |-> th.i]))

\* re.match(pat, text)
Match(pat, text) == Bind(<< pat, text >>, LAMBDA ps : MatchAt(ps[1], ps[2], 1))

\* re.search(pat, text): the first position where the pattern matches
Search(pat, text) ==
    Bind(<< pat, text >>, LAMBDA ps :
        Bind({i \in 1 .. Len(ps[2]) + 1 :
                 Threads(ps[1], ps[2], {Thread(i)}) # {}}, LAMBDA Hits :
            IF Hits = {} THEN NoMatch
            ELSE MatchAt(ps[1], ps[2], Least(Hits))))

(***************************************************************************)
(* _extract_metadata, lines 52-70.                                         *)
(***************************************************************************)
\* a dict with one more key set
Put(d, k, x) == (k :> x) @@ d

\* dict.get(k), None when the key is missing
Get(d, k) == IF k \in DOMAIN d THEN Some(d[k]) ELSE None

\* datetime.strptime(s, '%d/%m/%Y').date() for s of the shape dd/mm/yyyy:
\* the date, or the message of the ValueError when s is no calendar date
Strptime(s) ==
    Bind(<< IntOf(SubSeq(s, 1, 2)), IntOf(SubSeq(s, 4, 5)),
            IntOf(SubSeq(s, 7, 10)) >>, LAMBDA dmy :
        IF dmy[1] < 1 \/ dmy[1] > 31 \/ dmy[2] < 1 \/ dmy[2] > 12
        THEN [ok |-> FALSE,
              error |-> "time data '" \o s
                        \o "' does not match format '%d/%m/%Y'"]
        ELSE IF dmy[3] < 1
        THEN [ok |-> FALSE, error |-> "year 0 is out of range"]
        ELSE IF dmy[1] > DaysIn(dmy[2], dmy[3])
        THEN [ok |-> FALSE, error |-> "day is out of range for month"]
        ELSE [ok |-> TRUE,
              date |-> [year |-> dmy[3], month |-> dmy[2], day |-> dmy[1]]])

\* line 56: N°\s*(D\d{6}-\d+)
NumeroPattern ==
    Lit("N°") \o Star(Blank)
    \o Group(1, Lit("D") \o Times(Digit, 6) \o Lit("-") \o Plus(Digit))

\* lines 60 and 65: label\s*(\d{2}/\d{2}/\d{4})
DatePattern(label) ==
    Lit(label) \o Star(Blank)
    \o Group(1, Times(Digit, 2) \o Lit("/") \o Times(Digit, 2) \o Lit("/")
                \o Times(Digit, 4))

\* lines 56-58
MetadataNumero(text) ==
    Bind(Search(NumeroPattern, text), LAMBDA m :
        IF m.ok THEN Put(<< >>, "numero_devis", m.g[1]) ELSE << >>)

\* lines 60-63 and 65-68: one date rule; strptime may raise
MetadataDate(text, label, key, out) ==
    IF out.error # None THEN out
    ELSE Bind(Search(DatePattern(label), text), LAMBDA m :
        IF ~m.ok THEN out
        ELSE Bind(Strptime(m.g[1]), LAMBDA d :
            IF d.ok THEN [out EXCEPT !.value = Put(@, key, d.date)]
            ELSE [out EXCEPT !.error = Some(d.error)]))

\* the dict the function returns, or the error it raises
ExtractMetadata(text) ==
    MetadataDate(text, "valable jusqu'au", "date_validite",
        MetadataDate(text, "En date du", "date_devis",
            [error |-> None, value |-> MetadataNumero(text)]))

(***************************************************************************)
(* _extract_client_info, lines 72-129.                                     *)
(***************************************************************************)
\* (Mme|M\.|Monsieur|Madame)
Title == Alt(<< Lit("Mme"), Lit("M."), Lit("Monsieur"), Lit("Madame") >>)

\* [A-ZÀ-Ÿ][a-zà-ÿ]+
CapWord == One(NameFirst) \o Plus(NameRest)

\* line 81: (Mme|M\.|Monsieur|Madame)\s+
\*          ([A-ZÀ-Ÿ][a-zà-ÿ]+(?:\s+[A-ZÀ-Ÿ][a-zà-ÿ]+)+)
PrefixNamePattern ==
    Group(1, Title) \o Plus(Blank)
    \o Group(2, CapWord \o Rep(Plus(Blank) \o CapWord, 1, None))

\* line 91: ^\d+\s+
AddressPattern == Bol \o Plus(Digit) \o Plus(Blank)

\* line 95: ^\d{5}\s+
PostalPattern == Bol \o Times(Digit, 5) \o Plus(Blank)

\* line 103: ^(Mme|M\.|Monsieur|Madame)\s+[A-ZÀ-Ÿ]
TitleStartPattern == Bol \o Group(1, Title) \o Plus(Blank) \o One(NameFirst)

\* line 104: ^(Mme|M\.|Monsieur|Madame)\s+
TitlePattern == Bol \o Group(1, Title) \o Plus(Blank)

\* line 116: ^[A-ZÀ-Ÿ][a-zà-ÿ]+(\s+[A-ZÀ-Ÿ][a-zà-ÿ]+)+$
BareNamePattern ==
    Bol \o CapWord \o Rep(Group(1, Plus(Blank) \o CapWord), 1, None) \o Eol

\* lines 107, 109 and 121: \d and \d{5}
DigitPattern == One(Digit)

FiveDigitsPattern == Times(Digit, 5)

\* the strategy whose anchor the stripped line matches, 0 when none: the
\* if / elif / elif of lines 82, 103 and 116
Anchor(line_clean) ==
    IF Search(PrefixNamePattern, line_clean).ok THEN 1
    ELSE IF Match(TitleStartPattern, line_clean).ok THEN 2
    ELSE IF Match(BareNamePattern, line_clean).ok THEN 3
    ELSE 0

\* lines 85-100: the lines after the anchor of strategy 1, from lines[j]
\* to lines[last]
RECURSIVE Lookahead(_, _, _, _)
Lookahead(lines, j, last, client) ==
    IF j > last THEN client
    ELSE Bind(Strip(lines[j]), LAMBDA next_line :
        IF \/ next_line = ""
           \/ Contains(next_line, "SIRET")
           \/ Contains(next_line, "RAPIDO")
        THEN Lookahead(lines, j + 1, last, client)
        ELSE IF /\ Get(client, "adresse") \in {None, Some("")}
                /\ Match(AddressPattern, next_line).ok
        THEN Lookahead(lines, j + 1, last, Put(client, "adresse", next_line))
        ELSE IF Match(PostalPattern, next_line).ok
        THEN Bind(SplitOnce(next_line), LAMBDA parts :
                 IF Len(parts) > 1
                 THEN Put(Put(client, "code_postal", parts[1]),
                          "ville", parts[2])
                 ELSE Put(client, "code_postal", parts[1]))
        ELSE Lookahead(lines, j + 1, last, client))

\* lines 109-113 and 121-125: the postal code and the city in lines[k]
PostalLine(lines, k, client) ==
    IF k <= Len(lines) /\ Search(FiveDigitsPattern, lines[k]).ok
    THEN Bind(Split(Strip(lines[k])), LAMBDA parts :
             IF Len(parts) >= 2
             THEN Put(Put(client, "code_postal", parts[1]),
                      "ville", JoinWith(Tail(parts), " "))
             ELSE client)
    ELSE client

\* a variant that looks one line further
Strategy1Wide(lines, i, line_clean) ==
    Lookahead(lines, i + 1, IF i + 6 < Len(lines) THEN i + 6 ELSE Len(lines),
              Put(<< >>, "nom",
                  Strip(Search(PrefixNamePattern, line_clean).g[2])))

\* lines 83-101: strategy 1, anchored at lines[i]
Strategy1(lines, i, line_clean) ==
    Lookahead(lines, i + 1, IF i + 5 < Len(lines) THEN i + 5 ELSE Len(lines),
              Put(<< >>, "nom",
                  Strip(Search(PrefixNamePattern, line_clean).g[2])))

\* lines 104-114: strategy 2
Strategy2(lines, i, line_clean) ==
    PostalLine(lines, i + 2,
        Bind(Put(<< >>, "nom",
                 SubSeq(line_clean, Match(TitlePattern, line_clean).e,
                        Len(line_clean))), LAMBDA client :
            IF i + 1 <= Len(lines) /\ Search(DigitPattern, lines[i + 1]).ok
            THEN Put(client, "adresse", Strip(lines[i + 1]))
            ELSE client))

\* lines 117-126: strategy 3
Strategy3(lines, i, line_clean) ==
    PostalLine(lines, i + 2,
        Bind(Put(<< >>, "nom", line_clean), LAMBDA client :
            IF i + 1 <= Len(lines)
            THEN Put(client, "adresse", Strip(lines[i + 1]))
            ELSE client))

\* a variant in which the loop goes on after an anchor and takes from the
\* later anchors the fields the earlier ones have not found
RECURSIVE ClientScanOn(_, _)
ClientScanOn(lines, i) ==
    IF i > Len(lines) THEN << >>
    ELSE Bind(Strip(lines[i]), LAMBDA line_clean :
        Bind(Anchor(line_clean), LAMBDA a :
            CASE a = 1 -> Strategy1(lines, i, line_clean)
                          @@ ClientScanOn(lines, i + 1)
              [] a = 2 -> Strategy2(lines, i, line_clean)
                          @@ ClientScanOn(lines, i + 1)
              [] a = 3 -> Strategy3(lines, i, line_clean)
                          @@ ClientScanOn(lines, i + 1)
              [] OTHER -> ClientScanOn(lines, i + 1)))

\* lines 77-126: the loop over the lines, which ends at the first line that
\* matches an anchor
RECURSIVE ClientScan(_, _)
ClientScan(lines, i) ==
    IF i > Len(lines) THEN << >>
    ELSE Bind(Strip(lines[i]), LAMBDA line_clean :
        Bind(Anchor(line_clean), LAMBDA a :
            CASE a = 1 -> Strategy1(lines, i, line_clean)
              [] a = 2 -> Strategy2(lines, i, line_clean)
              [] a = 3 -> Strategy3(lines, i, line_clean)
              [] OTHER -> ClientScan(lines, i + 1)))

\* a variant that leaves type_client out
ExtractClientInfoBare(text) == ClientScan(SplitLines(text), 1)

ExtractClientInfo(text) ==
    Put(ClientScan(SplitLines(text), 1), "type_client", "PARTICULIER")

(***************************************************************************)
(* _extract_chantier_info, lines 131-144.                                  *)
(***************************************************************************)
\* line 135: Adresse du chantier\s*([^\n]+)\s*([^\n]*)\s*(\d{5})\s*([^\n]+)
ChantierPattern ==
    Lit("Adresse du chantier") \o Star(Blank) \o Group(1, PlusNot({"\n"}))
    \o Star(Blank) \o Group(2, StarNot({"\n"})) \o Star(Blank)
    \o Group(3, Times(Digit, 5)) \o Star(Blank) \o Group(4, PlusNot({"\n"}))

ExtractChantierInfo(text) ==
    Bind(Search(ChantierPattern, text), LAMBDA m :
        IF ~m.ok THEN << >>
        ELSE Put(Put(Put(IF LitAt(Strip(m.g[2]), 1, "(")
                         THEN Put(<< >>, "complement", Strip(m.g[2]))
                         ELSE << >>,
                         "adresse", Strip(m.g[1])),
                     "code_postal", m.g[3]),
                 "ville", Strip(m.g[4])))

(***************************************************************************)
(* _calculate_pdf_hash, lines 242-248.                                     *)
(***************************************************************************)
\* line 246: the size of the blocks the file is read in
ChunkSize == 4096

\* hashlib.sha256: the digest stands for the bytes it was fed, in order
Sha256Update(fed, chunk) == fed \o chunk

HexDigest(fed) == [sha256 |-> fed]

\* a variant that reads one block only
ReadOneChunk(bytes, pos, fed) ==
    Sha256Update(fed,
        SubSeq(bytes, pos,
               IF pos + ChunkSize - 1 < Len(bytes)
               THEN pos + ChunkSize - 1 ELSE Len(bytes)))

\* lines 245-247: the file is read block by block until a read returns
\* nothing
RECURSIVE ReadChunks(_, _, _)
ReadChunks(bytes, pos, fed) ==
    IF pos > Len(bytes) THEN fed
    ELSE ReadChunks(bytes, pos + ChunkSize,
                    Sha256Update(fed,
                        SubSeq(bytes, pos,
                               IF pos + ChunkSize - 1 < Len(bytes)
                               THEN pos + ChunkSize - 1 ELSE Len(bytes))))

CalculatePdfHash(bytes) == HexDigest(ReadChunks(bytes, 1, << >>))

(***************************************************************************)
(* _parse_table, lines 146-215.                                            *)
(***************************************************************************)
\* line 163: ^(\d+)\s+(.+?)\s*-\s*([\d.]+)\s*m²
PiecePattern ==
    Bol \o Group(1, Plus(Digit)) \o Plus(Blank) \o Group(2, LazyDots)
    \o Star(Blank) \o Lit("-") \o Star(Blank) \o Group(3, Plus(DigitDot))
    \o Star(Blank) \o Lit("m²")

\* line 178: ^(\d+\.\d+)\s+([A-Z...][a-z...\s/]+)$
CatPattern ==
    Bol \o Group(1, Plus(Digit) \o Lit(".") \o Plus(Digit)) \o Plus(Blank)
    \o Group(2, One(CatFirst) \o Plus(CatRest)) \o Eol

\* lines 184-185: ^(\d+\.\d+\.\d+)\s+(.+?)\s+(\d+(?:[.,]\d+)?)\s+(\w+)\s+
\*                ([\d,]+)\s*€\s+([\d.]+)\s*%\s+([\d,]+)\s*€
LignePattern ==
    Bol
    \o Group(1, Plus(Digit) \o Lit(".") \o Plus(Digit) \o Lit(".")
                \o Plus(Digit))
    \o Plus(Blank) \o Group(2, LazyDots) \o Plus(Blank)
    \o Group(3, Plus(Digit)
                \o Rep(One({".", ","}) \o Plus(Digit), 0, Some(1)))
    \o Plus(Blank) \o Group(4, Plus(Word)) \o Plus(Blank)
    \o Group(5, Plus(DigitComma)) \o Star(Blank) \o Lit("€") \o Plus(Blank)
    \o Group(6, Plus(DigitDot)) \o Star(Blank) \o Lit("%") \o Plus(Blank)
    \o Group(7, Plus(DigitComma)) \o Star(Blank) \o Lit("€")

FloatError(txt) == "could not convert string to float: '" \o txt \o "'"

\* line 158: str(row[0]).strip(), for a row the guard of line 155 lets pass
RowLine(row) == Strip(row[1][1])

\* lines 155-161: the rows the loop skips before it tries any pattern
RowSkipped(row) ==
    \/ Len(row) = 0
    \/ row[1] = None
    \/ row[1][1] = ""
    \/ \E line \in {RowLine(row)} : Contains(line, "DÉSIGNATION") \/ line = ""

\* what the loop reads in a row: the class of the row, the error it raises
\* if any, and the values captured
Reads(kind, error, piece, category, ligne) ==
    [kind |-> kind, error |-> error, piece |-> piece, category |-> category,
     ligne |-> ligne]

\* lines 165-173: a sub-area header, whose groups are g (float() may raise)
ReadPiece(g) ==
    Bind(Float(g[3]), LAMBDA f :
        IF f.ok
        THEN Reads("piece", None,
                   Some([numero |-> g[1], nom |-> Strip(g[2]),
                         surface |-> f.v]),
                   None, None)
        ELSE Reads("piece", Some(FloatError(g[3])), None, None, None))

\* lines 179-180: a category header
ReadCategory(g) == Reads("category", None, None, Some(Strip(g[2])), None)

\* lines 191-195: the texts of a priced line that float() is given, in the
\* order the code converts them
LigneFloats(g) ==
    << Replace(g[3], ",", "."), Replace(g[5], ",", "."), g[6],
       Replace(g[7], ",", ".") >>

\* lines 189-199 and 206-212: the fields of a priced line that its text
\* gives, x being the floats of the line
LigneFields(g, x) ==
    Bind(Strip(g[2]), LAMBDA dd :
    Bind(RunEndNot(dd, 1, {"\n"}), LAMBDA nl :
        [numero_ligne     |-> g[1],
         designation      |-> Strip(SubSeq(dd, 1, nl - 1)),
         description      |-> Strip(SubSeq(dd, nl + 1, Len(dd))),
         quantite         |-> x[1].v,
         unite            |-> g[4],
         prix_unitaire_ht |-> x[2].v,
         taux_tva         |-> x[3].v,
         total_ht         |-> x[4].v]))

\* lines 184-199: a priced line; the first float() that raises is the
\* error of the row
ReadLigne(g) ==
    Bind(LigneFloats(g), LAMBDA f :
    Bind(<< Float(f[1]), Float(f[2]), Float(f[3]), Float(f[4]) >>, LAMBDA x :
        IF \A n \in 1 .. 4 : x[n].ok
        THEN Reads("ligne", None, None, None, Some(LigneFields(g, x)))
        ELSE Reads("ligne",
                   Some(FloatError(f[Least({n \in 1 .. 4 : ~x[n].ok})])),
                   None, None, None)))

\* lines 163-188: the patterns are tried in this order, the first that
\* matches decides
ReadLine(line) ==
    Bind(Match(PiecePattern, line), LAMBDA pm :
        IF pm.ok THEN ReadPiece(pm.g)
        ELSE Bind(Match(CatPattern, line), LAMBDA cm :
            IF cm.ok THEN ReadCategory(cm.g)
            ELSE Bind(Match(LignePattern, line), LAMBDA lm :
                IF lm.ok THEN ReadLigne(lm.g)
                ELSE Reads("noise", None, None, None, None))))

\* lines 155-199: one row, before the loop touches the parser state
ReadRow(row) ==
    IF RowSkipped(row) THEN Reads("skip", None, None, None, None)
    ELSE Bind(RowLine(row), LAMBDA line : ReadLine(line))

\* a variant that appends every sub-area header it reads
AddPieceAlways(pieces, piece) == Append(pieces, piece)

\* lines 174-175: append unless the number is already in the output
AddPiece(pieces, piece) ==
    IF \E n \in 1 .. Len(pieces) : pieces[n].numero = piece.numero
    THEN pieces
    ELSE Append(pieces, piece)

\* a variant that attaches no sub-area to the line
LigneOfDetached(fields, cur_piece, cur_category) ==
    [numero_ligne     |-> fields.numero_ligne,
     piece            |-> None,
     surface_piece    |-> None,
     categorie        |-> cur_category,
     designation      |-> fields.designation,
     description      |-> fields.description,
     quantite         |-> fields.quantite,
     unite            |-> fields.unite,
     prix_unitaire_ht |-> fields.prix_unitaire_ht,
     taux_tva         |-> fields.taux_tva,
     total_ht         |-> fields.total_ht]

\* lines 201-213: the record of a priced line
LigneOf(fields, cur_piece, cur_category) ==
    [numero_ligne     |-> fields.numero_ligne,
     piece            |-> IF cur_piece # None
                          THEN Some(cur_piece[1].nom) ELSE None,
     surface_piece    |-> IF cur_piece # None
                          THEN Some(cur_piece[1].surface) ELSE None,
     categorie        |-> cur_category,
     designation      |-> fields.designation,
     description      |-> fields.description,
     quantite         |-> fields.quantite,
     unite            |-> fields.unite,
     prix_unitaire_ht |-> fields.prix_unitaire_ht,
     taux_tva         |-> fields.taux_tva,
     total_ht         |-> fields.total_ht]

\* a variant in which a header whose numero is already in the output
\* leaves current_piece as it is
RowEffectFirst(ps, rd) ==
    CASE rd.kind = "piece" ->
           IF \E n \in 1 .. Len(ps.pieces) :
                 ps.pieces[n].numero = rd.piece[1].numero
           THEN ps
           ELSE [ps EXCEPT !.current_piece = rd.piece,
                           !.pieces = AddPiece(ps.pieces, rd.piece[1])]
      [] rd.kind = "category" ->
           [ps EXCEPT !.current_category = rd.category]
      [] rd.kind = "ligne" ->
           [ps EXCEPT !.lignes =
               Append(ps.lignes,
                      LigneOf(rd.ligne[1], ps.current_piece,
                              ps.current_category))]
      [] OTHER -> ps

\* a variant in which a priced line is appended twice
RowEffectTwice(ps, rd) ==
    CASE rd.kind = "piece" ->
           [ps EXCEPT !.current_piece = rd.piece,
                      !.pieces = AddPiece(ps.pieces, rd.piece[1])]
      [] rd.kind = "category" ->
           [ps EXCEPT !.current_category = rd.category]
      [] rd.kind = "ligne" ->
           [ps EXCEPT !.lignes =
               ps.lignes
               \o << LigneOf(rd.ligne[1], ps.current_piece,
                             ps.current_category),
                     LigneOf(rd.ligne[1], ps.current_piece,
                             ps.current_category) >>]
      [] OTHER -> ps

\* a variant in which a row that is no header and no priced line ends the
\* category
RowEffectReset(ps, rd) ==
    CASE rd.kind = "piece" ->
           [ps EXCEPT !.current_piece = rd.piece,
                      !.pieces = AddPiece(ps.pieces, rd.piece[1])]
      [] rd.kind = "category" ->
           [ps EXCEPT !.current_category = rd.category]
      [] rd.kind = "ligne" ->
           [ps EXCEPT !.lignes =
               Append(ps.lignes,
                      LigneOf(rd.ligne[1], ps.current_piece,
                              ps.current_category))]
      [] OTHER -> [ps EXCEPT !.current_category = None]

\* lines 169-176, 180 and 201-215: the parser state after a row, read as
\* rd, that raises nothing
RowEffect(ps, rd) ==
    CASE rd.kind = "piece" ->
           [ps EXCEPT !.current_piece = rd.piece,
                      !.pieces = AddPiece(ps.pieces, rd.piece[1])]
      [] rd.kind = "category" ->
           [ps EXCEPT !.current_category = rd.category]
      [] rd.kind = "ligne" ->
           [ps EXCEPT !.lignes =
               Append(ps.lignes,
                      LigneOf(rd.ligne[1], ps.current_piece,
                              ps.current_category))]
      [] OTHER -> ps

(***************************************************************************)
(* _extract_montants, lines 217-240.                                       *)
(***************************************************************************)
\* \s*([\d\s,]+)\s*€
AmountPattern ==
    Star(Blank) \o Group(1, Plus(DigitBlankComma)) \o Star(Blank) \o Lit("€")

\* lines 221, 225, 229 and 233: the four patterns, in the order the code
\* searches them
MontantPatterns ==
    << Lit("Total net HT") \o AmountPattern,
       Lit("TVA") \o Star(Blank) \o Lit("(10.0%)") \o AmountPattern,
       Lit("TVA") \o Star(Blank) \o Lit("(20.0%)") \o AmountPattern,
       Lit("Total TTC") \o AmountPattern >>

MontantKeys == << "total_ht", "tva_10_pct", "tva_20_pct", "total_ttc" >>

\* float(group.replace(' ', '').replace(',', '.')): the text float() gets
MontantText(cap) == Replace(Replace(cap, " ", ""), ",", ".")

\* lines 221-235, one pattern: whether it was found, the text float() gets
\* and the float
MontantRead(text, n) ==
    Bind(Search(MontantPatterns[n], text), LAMBDA m :
        IF ~m.ok THEN [found |-> FALSE, txt |-> "", f |-> Float("0")]
        ELSE Bind(MontantText(m.g[1]), LAMBDA txt :
                 [found |-> TRUE, txt |-> txt, f |-> Float(txt)]))

MontantReads(text) ==
    << MontantRead(text, 1), MontantRead(text, 2), MontantRead(text, 3),
       MontantRead(text, 4) >>

\* the ValueError the function raises for the reads c, None when it raises
\* none: the first float() that fails
MontantsError(c) ==
    Bind({n \in 1 .. 4 : c[n].found /\ ~c[n].f.ok}, LAMBDA Bad :
        IF Bad = {} THEN None ELSE Some(FloatError(c[Least(Bad)].txt)))

RECURSIVE SumSurface(_)
SumSurface(pieces) ==
    IF Len(pieces) = 0 THEN 0
    ELSE pieces[1].surface + SumSurface(Tail(pieces))

\* a variant that defaults the totals whose label is not found to zero
MontantsOfZero(c, pieces) ==
    [key \in {MontantKeys[n] : n \in 1 .. 4}
             \cup (IF Len(pieces) > 0 THEN {"surface_totale"} ELSE {}) |->
        IF key = "surface_totale" THEN SumSurface(pieces)
        ELSE IF c[CHOOSE n \in 1 .. 4 : MontantKeys[n] = key].found
             THEN c[CHOOSE n \in 1 .. 4 : MontantKeys[n] = key].f.v
             ELSE 0]

\* a variant that sets surface_totale for every document, zero when the
\* output has no sub-area
MontantsOfArea(c, pieces) ==
    [key \in {MontantKeys[n] : n \in {m \in 1 .. 4 : c[m].found}}
             \cup {"surface_totale"} |->
        IF key = "surface_totale" THEN SumSurface(pieces)
        ELSE c[CHOOSE n \in 1 .. 4 : MontantKeys[n] = key].f.v]

\* lines 219-240: the dict the function returns when no float() raises: a
\* key for each label found, and surface_totale when the output has a
\* sub-area
MontantsOf(c, pieces) ==
    [key \in {MontantKeys[n] : n \in {m \in 1 .. 4 : c[m].found}}
             \cup (IF Len(pieces) > 0 THEN {"surface_totale"} ELSE {}) |->
        IF key = "surface_totale" THEN SumSurface(pieces)
        ELSE c[CHOOSE n \in 1 .. 4 : MontantKeys[n] = key].f.v]

(***************************************************************************)
(* The state.                                                              *)
(***************************************************************************)
VARIABLES
    pc,                \* RapidoDevisParser: where parse stands
    pdf,               \* the file the parser reads
    data,              \* RapidoDevisParser.data
    nrows,             \* _parse_table: len(table)
    ri,                \* _parse_table: the row the loop is at
    current_piece,     \* _parse_table: local
    current_category,  \* _parse_table: local
    ntables,           \* parse: the tables handed to _parse_table so far
    raised,            \* the exception that left parse, None when none did
    hist,              \* history of the rows read in this document
    prog,              \* the batch caller that runs, "none" when none does
    bpc,               \* the batch caller: where it stands
    dir,               \* the PDF files of the directory, in glob order
    limit,             \* the batch caller: limit
    pdf_files,         \* the batch caller: the files it loops over
    fi,                \* the batch caller: the file the loop is at
    results,           \* test_parser_batch: results
    all_devis,         \* extract_pdfs: all_devis
    all_pieces,        \* extract_pdfs: all_pieces
    all_lignes,        \* extract_pdfs: all_lignes
    errors,            \* extract_pdfs: errors
    output,            \* what the batch caller has returned or crashed with
    lpc,               \* load_to_postgres: where it stands
    frames,            \* load_to_postgres: data, the frames to load
    store,             \* the database: the rows that are committed
    work,              \* the database as the open transaction sees it
    cursor,            \* load_to_postgres: cursor
    lraised,           \* the exception that left load_to_postgres
    loads,             \* the calls of load_to_postgres so far
    trail              \* history: the steps the current call has completed

parserVars == << pc, pdf, data, nrows, ri, current_piece, current_category,
                 ntables, raised, hist >>

batchVars == << prog, bpc, dir, limit, pdf_files, fi, results, all_devis,
                all_pieces, all_lignes, errors, output >>

loadVars == << lpc, frames, store, work, cursor, lraised, loads, trail >>

vars == << parserVars, batchVars, loadVars >>

(***************************************************************************)
(* Bounds of the model.                                                    *)
(***************************************************************************)
\* SpecTable: the tables fed and the rows of a table
MaxTables == 2

MaxRows == 3

\* SpecTable: the priced lines of a document
MaxLignes == 1

\* SpecClient: the lines of the first page
MaxLines == 3

\* SpecLookahead: the lines after the line of the client
MaxAfter == 6

\* SpecBatch: the files of the directory
MaxDocs == 2

(***************************************************************************)
(* Documents.  A file is [path, readable, bytes, pages]; a page is what    *)
(* pdfplumber extracts from it, [text, tables]; a table is the list of its *)
(* rows, a row the list of its cells, a cell None or a text.               *)
(***************************************************************************)
Cell(txt) == << Some(txt) >>

Page(text, tables) == [text |-> text, tables |-> tables]

File(path, bytes, pages) ==
    [path |-> path, readable |-> TRUE, bytes |-> bytes, pages |-> pages]

\* a file pdfplumber cannot open
Unreadable(path, bytes) ==
    [path |-> path, readable |-> FALSE, bytes |-> bytes, pages |-> << >>]

\* the tables of a file, page after page (lines 42-44)
RECURSIVE TablesFrom(_, _)
TablesFrom(pages, n) ==
    IF n > Len(pages) THEN << >>
    ELSE pages[n].tables \o TablesFrom(pages, n + 1)

TablesOf(file) == TablesFrom(file.pages, 1)

\* the rows SpecTable feeds
RowVocab ==
    { << None >>,
      Cell("DÉSIGNATION"),
      Cell("1 Cuisine - 12.5 m²"),
      Cell("1 Salon - 8 m²"),
      Cell("2 Salon - 20 m²"),
      Cell("3 Cave - 1.2.3 m²"),
      Cell("1.1 Revêtements"),
      Cell("1.1.1 Peinture murale 10 m2 25,00 € 10.0 % 250,00 €"),
      Cell("1.1.2 Pose 1,5 u 1,2,3 € 20.0 % 15,00 €"),
      Cell("Sous-total") }

\* what the loop reads in each of these rows, computed once
RowReadings == {<< row, ReadRow(row) >> : row \in RowVocab}

Reading(row) ==
    IF row \in RowVocab
    THEN (CHOOSE p \in RowReadings : p[1] = row)[2]
    ELSE ReadRow(row)

\* page texts
NoText == "conditions générales de vente\npage 2"

FullText ==
    "Devis N° D202501-12\nEn date du 05/01/2025\n"
    \o "valable jusqu'au 05/02/2025\nMme Claire Martin\n12 rue des Lilas\n"
    \o "75011 Paris\nAdresse du chantier 3 allée Verte\n69001 Lyon\n"
    \o "Total net HT 250,00 €\nTVA (10.0%) 25,00 €\nTotal TTC 275,00 €"

BadIssueText ==
    "N° D202501-13\nEn date du 31/02/2025\nvalable jusqu'au 05/03/2025"

BadExpiryText ==
    "En date du 05/01/2025\nvalable jusqu'au 99/99/2025\nN° D202501-14"

BadTotalText == "N° D202501-15\nTotal net HT 1,2,3 €\nTotal TTC 12,00 €"

PageTexts == {"", NoText, FullText, BadIssueText, BadExpiryText, BadTotalText}

\* lines 30-32 and 48: what the extractors read in a page text
ReadPage(text) ==
    [metadata |-> ExtractMetadata(text),
     client   |-> ExtractClientInfo(text),
     chantier |-> ExtractChantierInfo(text),
     montants |-> MontantReads(text)]

\* the same for each of the page texts, computed once
PageReadings == {<< text, ReadPage(text) >> : text \in PageTexts}

PageReading(text) ==
    IF text \in PageTexts
    THEN (CHOOSE p \in PageReadings : p[1] = text)[2]
    ELSE ReadPage(text)

(***************************************************************************)
(* History: what the rows read so far in this document say, whatever the   *)
(* table they stood in.  cat and piece are the last category header and    *)
(* the last sub-area header read, with the number of the table; first      *)
(* holds the first header read for each sub-area number.                   *)
(***************************************************************************)
HistInit == [cat |-> None, catTable |-> 0, piece |-> None, pieceTable |-> 0,
             first |-> << >>]

HistAfter(h, rd, t) ==
    CASE rd.kind = "piece" ->
           [h EXCEPT !.piece = rd.piece, !.pieceTable = t,
                     !.first =
                        IF \E n \in 1 .. Len(h.first) :
                               h.first[n].numero = rd.piece[1].numero
                        THEN h.first
                        ELSE Append(h.first, rd.piece[1])]
      [] rd.kind = "category" ->
           [h EXCEPT !.cat = rd.category, !.catTable = t]
      [] OTHER -> h

(***************************************************************************)
(* parse, lines 22-50.                                                     *)
(***************************************************************************)
\* lines 29-40: self.data once the first page is read
DataOf(metadata, client, chantier, path, hash) ==
    [metadata |-> metadata, client |-> client, chantier |-> chantier,
     pieces |-> << >>, lignes |-> << >>, montants |-> << >>,
     pdf_info |-> [path |-> path, hash |-> hash]]

\* what pdfplumber.open raises on a file that is no PDF
OpenError == "No /Root object! - Is this really a PDF?"

\* pdf.pages[0] on a file without pages
IndexError == "list index out of range"

\* lines 25-40: the file is opened and its first page read; strptime may
\* raise, and nothing catches it in parse
ParseOpen ==
    /\ pc = "open"
    /\ IF ~pdf.readable \/ Len(pdf.pages) = 0
       THEN /\ raised' = Some(IF pdf.readable THEN IndexError ELSE OpenError)
            /\ pc' = "raised"
            /\ UNCHANGED data
       ELSE \E rd \in {PageReading(pdf.pages[1].text)} :
               IF rd.metadata.error # None
               THEN /\ raised' = rd.metadata.error
                    /\ pc' = "raised"
                    /\ UNCHANGED data
               ELSE /\ data' = DataOf(rd.metadata.value, rd.client,
                                      rd.chantier, pdf.path,
                                      CalculatePdfHash(pdf.bytes))
                    /\ pc' = "tables"
                    /\ UNCHANGED raised
    /\ ntables' = 0
    /\ hist' = HistInit
    /\ UNCHANGED << pdf, nrows, ri, current_piece, current_category >>
    /\ UNCHANGED batchVars
    /\ UNCHANGED loadVars

\* a variant in which the locals outlive the call
StaleLocals ==
    [current_piece |-> current_piece, current_category |-> current_category]

\* lines 151-152: the locals of _parse_table when it is entered
FreshLocals == [current_piece |-> None, current_category |-> None]

ParserState ==
    [pieces |-> data.pieces, lignes |-> data.lignes,
     current_piece |-> current_piece, current_category |-> current_category]

\* lines 148-149: the call of _parse_table on a table of n rows, which
\* returns at once when the table has fewer than two rows
ParseTableShort(n) ==
    /\ pc = "tables"
    /\ n < 2
    /\ ntables' = ntables + 1
    /\ UNCHANGED << pc, pdf, data, nrows, ri, current_piece,
                    current_category, raised, hist >>
    /\ UNCHANGED batchVars
    /\ UNCHANGED loadVars

\* lines 151-154: the call on a longer table, up to the loop over its rows
ParseTableEnter(n) ==
    /\ pc = "tables"
    /\ n >= 2
    /\ ntables' = ntables + 1
    /\ nrows' = n
    /\ ri' = 1
    /\ current_piece' = FreshLocals.current_piece
    /\ current_category' = FreshLocals.current_category
    /\ pc' = "rows"
    /\ UNCHANGED << pdf, data, raised, hist >>
    /\ UNCHANGED batchVars
    /\ UNCHANGED loadVars

\* lines 154-215: one turn of the loop, on a row that raises nothing
RowStep(kind, row) ==
    /\ pc = "rows"
    /\ ri <= nrows
    /\ \E rd \in {Reading(row)} :
          /\ rd.kind = kind
          /\ rd.error = None
          /\ \E ps \in {RowEffect(ParserState, rd)} :
                /\ data' = [data EXCEPT !.pieces = ps.pieces,
                                        !.lignes = ps.lignes]
                /\ current_piece' = ps.current_piece
                /\ current_category' = ps.current_category
          /\ hist' = HistAfter(hist, rd, ntables)
    /\ ri' = ri + 1
    /\ UNCHANGED << pc, pdf, nrows, ntables, raised >>
    /\ UNCHANGED batchVars
    /\ UNCHANGED loadVars

\* lines 167 and 191-195: float() raises, and nothing catches it in parse
RowRaise(row) ==
    /\ pc = "rows"
    /\ ri <= nrows
    /\ \E rd \in {Reading(row)} :
          /\ rd.error # None
          /\ raised' = rd.error
    /\ pc' = "raised"
    /\ UNCHANGED << pdf, data, nrows, ri, current_piece, current_category,
                    ntables, hist >>
    /\ UNCHANGED batchVars
    /\ UNCHANGED loadVars

\* the loop over the rows ends and _parse_table returns
ParseTableReturn ==
    /\ pc = "rows"
    /\ ri > nrows
    /\ pc' = "tables"
    /\ UNCHANGED << pdf, data, nrows, ri, current_piece, current_category,
                    ntables, raised, hist >>
    /\ UNCHANGED batchVars
    /\ UNCHANGED loadVars

\* line 45 is behind: the pages have no further table
TablesEnd ==
    /\ pc = "tables"
    /\ pc' = "montants"
    /\ UNCHANGED << pdf, data, nrows, ri, current_piece, current_category,
                    ntables, raised, hist >>
    /\ UNCHANGED batchVars
    /\ UNCHANGED loadVars

\* lines 47-50: the totals of the last page, and the return of parse
ExtractMontants(last_page_text) ==
    /\ pc = "montants"
    /\ \E c \in {PageReading(last_page_text).montants} :
          IF MontantsError(c) # None
          THEN /\ raised' = MontantsError(c)
               /\ pc' = "raised"
               /\ UNCHANGED data
          ELSE /\ data' = [data EXCEPT !.montants = MontantsOf(c, data.pieces)]
               /\ pc' = "returned"
               /\ UNCHANGED raised
    /\ UNCHANGED << pdf, nrows, ri, current_piece, current_category, ntables,
                    hist >>
    /\ UNCHANGED batchVars
    /\ UNCHANGED loadVars

(***************************************************************************)
(* No batch caller runs.                                                   *)
(***************************************************************************)
NoBatch ==
    /\ prog = "none"
    /\ bpc = "none"
    /\ dir = << >>
    /\ limit = None
    /\ pdf_files = << >>
    /\ fi = 1
    /\ results = << >>
    /\ all_devis = << >>
    /\ all_pieces = << >>
    /\ all_lignes = << >>
    /\ errors = << >>
    /\ output = None

(***************************************************************************)
(* load_to_postgres does not run, and the database is empty.               *)
(***************************************************************************)
\* the tables the loader writes, each the sequence of its rows; the id of a
\* row is its place in the sequence
EmptyStore ==
    [clients |-> << >>, devis |-> << >>, pieces_travaux |-> << >>,
     lignes_devis |-> << >>, paiements |-> << >>]

NoFrames ==
    [clients |-> << >>, devis |-> << >>, pieces |-> << >>, lignes |-> << >>,
     paiements |-> << >>]

NoLoad ==
    /\ lpc = "idle"
    /\ frames = NoFrames
    /\ store = EmptyStore
    /\ work = EmptyStore
    /\ cursor = "none"
    /\ lraised = None
    /\ loads = 0
    /\ trail = << >>

\* the bytes of a file stand for its content
BytesOf(pages) == << pages >>

(***************************************************************************)
(* SpecTable: the table loop of one document, fed any tables row by row.   *)
(***************************************************************************)
InitTable ==
    /\ pc = "tables"
    /\ pdf = File("devis.pdf", BytesOf(<< >>), << >>)
    /\ data = DataOf(<< >>, [type_client |-> "PARTICULIER"], << >>,
                     "devis.pdf", CalculatePdfHash(BytesOf(<< >>)))
    /\ nrows = 0
    /\ ri = 1
    /\ current_piece = None
    /\ current_category = None
    /\ ntables = 0
    /\ raised = None
    /\ hist = HistInit
    /\ NoBatch
    /\ NoLoad

FeedTableShort ==
    \E n \in 0 .. MaxRows : ntables < MaxTables /\ ParseTableShort(n)

FeedTableEnter ==
    \E n \in 0 .. MaxRows : ntables < MaxTables /\ ParseTableEnter(n)

FeedSkip == \E row \in RowVocab : RowStep("skip", row)

FeedPiece == \E row \in RowVocab : RowStep("piece", row)

FeedCategory == \E row \in RowVocab : RowStep("category", row)

FeedLigne ==
    \E row \in RowVocab :
        Len(data.lignes) < MaxLignes /\ RowStep("ligne", row)

FeedNoise == \E row \in RowVocab : RowStep("noise", row)

FeedRaise == \E row \in RowVocab : RowRaise(row)

FeedMontants == ExtractMontants("")

NextTable ==
    \/ FeedTableShort
    \/ FeedTableEnter
    \/ FeedSkip
    \/ FeedPiece
    \/ FeedCategory
    \/ FeedLigne
    \/ FeedNoise
    \/ FeedRaise
    \/ ParseTableReturn
    \/ TablesEnd
    \/ FeedMontants

SpecTable == InitTable /\ [][NextTable]_vars

(***************************************************************************)
(* parse on a stored file: the tables and the last page are the file's.    *)
(***************************************************************************)
DocTableShort ==
    /\ ntables < Len(TablesOf(pdf))
    /\ ParseTableShort(Len(TablesOf(pdf)[ntables + 1]))

DocTableEnter ==
    /\ ntables < Len(TablesOf(pdf))
    /\ ParseTableEnter(Len(TablesOf(pdf)[ntables + 1]))

DocRow ==
    /\ pc = "rows"
    /\ ri <= nrows
    /\ \E row \in {TablesOf(pdf)[ntables][ri]} :
          RowStep(Reading(row).kind, row)

DocRowRaise ==
    /\ pc = "rows"
    /\ ri <= nrows
    /\ RowRaise(TablesOf(pdf)[ntables][ri])

DocTablesEnd ==
    /\ ntables = Len(TablesOf(pdf))
    /\ TablesEnd

DocMontants ==
    /\ pc = "montants"
    /\ ExtractMontants(pdf.pages[Len(pdf.pages)].text)

ParseStep ==
    \/ ParseOpen
    \/ DocTableShort
    \/ DocTableEnter
    \/ DocRow
    \/ DocRowRaise
    \/ ParseTableReturn
    \/ DocTablesEnd
    \/ DocMontants

\* line 20: self.data when the parser is constructed
NewData == << >>

(***************************************************************************)
(* SpecClient: the first page of a file, whose text is any sequence of at  *)
(* most MaxLines of these lines.                                           *)
(***************************************************************************)
ClientLines ==
    {"Mme Claire Martin", "Jean Dupont", "M. DUPONT", "12 rue des Lilas",
     "75011 Paris", "BP 75011 Paris", "Devis"}

ClientTexts ==
    {JoinWith(ls, "\n") :
        ls \in UNION {[1 .. n -> ClientLines] : n \in 1 .. MaxLines}}

InitClient ==
    /\ pc = "open"
    /\ \E text \in ClientTexts :
          pdf = File("devis.pdf", BytesOf(<< Page(text, << >>) >>),
                     << Page(text, << >>) >>)
    /\ data = NewData
    /\ nrows = 0
    /\ ri = 1
    /\ current_piece = None
    /\ current_category = None
    /\ ntables = 0
    /\ raised = None
    /\ hist = HistInit
    /\ NoBatch
    /\ NoLoad

NextClient == ParseOpen

SpecClient == InitClient /\ [][NextClient]_vars

(***************************************************************************)
(* SpecParse: parse on one of these files.                                 *)
(***************************************************************************)
HeaderRow == Cell("DÉSIGNATION")

\* the lists of tables of a page
NoTables == << >>

GoodTables ==
    << << HeaderRow, Cell("1 Cuisine - 12.5 m²"), Cell("1.1 Revêtements"),
          Cell("1.1.1 Peinture murale 10 m2 25,00 € 10.0 % 250,00 €") >> >>

BadAreaTables ==
    << << HeaderRow, Cell("3 Cave - 1.2.3 m²"), Cell("1.1 Revêtements"),
          Cell("1.1.1 Peinture murale 10 m2 25,00 € 10.0 % 250,00 €") >> >>

BadPriceTables ==
    << << Cell("2 Salon - 20 m²"),
          Cell("1.1.2 Pose 1,5 u 1,2,3 € 20.0 % 15,00 €"),
          Cell("1.2 Plomberie") >> >>

SplitTables ==
    << << HeaderRow, Cell("1 Cuisine - 12.5 m²"), Cell("1.1 Revêtements") >>,
       << HeaderRow,
          Cell("1.1.1 Peinture murale 10 m2 25,00 € 10.0 % 250,00 €") >> >>

NoiseTables ==
    << << Cell("Sous-total") >>, << << None >>, Cell("Sous-total") >> >>

LinesTables ==
    << << HeaderRow,
          Cell("1.1.1 Peinture murale 10 m2 25,00 € 10.0 % 250,00 €") >>,
       << HeaderRow >> >>

\* a table of one row, a sub-area header, before the table of its lines
SingleRowTables ==
    << << Cell("1 Cuisine - 12.5 m²") >>,
       << HeaderRow,
          Cell("1.1.1 Peinture murale 10 m2 25,00 € 10.0 % 250,00 €") >> >>

\* a second sub-area, without a category of its own
CategoryTables ==
    << << HeaderRow, Cell("1 Cuisine - 12.5 m²"), Cell("1.1 Revêtements"),
          Cell("2 Salon - 20 m²"),
          Cell("1.1.1 Peinture murale 10 m2 25,00 € 10.0 % 250,00 €") >> >>

TableLists ==
    {NoTables, GoodTables, BadAreaTables, BadPriceTables, SplitTables,
     NoiseTables, LinesTables, SingleRowTables, CategoryTables}

\* a file of one page
OnePage(text, tables) ==
    File("devis.pdf", BytesOf(<< Page(text, tables) >>),
         << Page(text, tables) >>)

TwoPages ==
    File("devis.pdf",
         BytesOf(<< Page(FullText, GoodTables), Page(NoText, LinesTables) >>),
         << Page(FullText, GoodTables), Page(NoText, LinesTables) >>)

\* a file that is no PDF
NotAPdf == Unreadable("devis.pdf", BytesOf(<< Page("not a PDF", << >>) >>))

DocVocab ==
    {OnePage(text, tables) : text \in PageTexts, tables \in TableLists}
    \cup {TwoPages, File("devis.pdf", BytesOf(<< >>), << >>),
          NotAPdf}

InitParse ==
    /\ pc = "open"
    /\ pdf \in DocVocab
    /\ data = NewData
    /\ nrows = 0
    /\ ri = 1
    /\ current_piece = None
    /\ current_category = None
    /\ ntables = 0
    /\ raised = None
    /\ hist = HistInit
    /\ NoBatch
    /\ NoLoad

NextParse == ParseStep

SpecParse == InitParse /\ [][NextParse]_vars

(***************************************************************************)
(* The batch callers: test_parser_batch (scripts/test_parser_batch.py,     *)
(* lines 11-108) and RapidoDevisETL.extract_pdfs (scripts/etl_pipeline.py, *)
(* lines 55-122).                                                          *)
(***************************************************************************)
\* test_parser_batch.py, line 11: the default of limit
DefaultLimit == 50

\* seq[:n]
Take(seq, n) == SubSeq(seq, 1, IF n < Len(seq) THEN n ELSE Len(seq))

\* Path.name: what follows the last /
BaseName(path) ==
    SubSeq(path,
           1 + (IF \E i \in 1 .. Len(path) : Ch(path, i) = "/"
                THEN CHOOSE i \in 1 .. Len(path) :
                        /\ Ch(path, i) = "/"
                        /\ \A j \in i + 1 .. Len(path) : Ch(path, j) # "/"
                ELSE 0),
           Len(path))

\* test_parser_batch.py, line 21
TestStart ==
    /\ prog = "test"
    /\ bpc = "start"
    /\ pdf_files' = Take(dir, limit[1])
    /\ fi' = 1
    /\ bpc' = "loop"
    /\ UNCHANGED << prog, dir, limit, results, all_devis, all_pieces,
                    all_lignes, errors, output >>
    /\ UNCHANGED parserVars
    /\ UNCHANGED loadVars

\* etl_pipeline.py, lines 68-79
EtlStart ==
    /\ prog = "etl"
    /\ bpc = "start"
    /\ pdf_files' = IF limit # None /\ limit[1] # 0
                    THEN Take(dir, limit[1]) ELSE dir
    /\ fi' = 1
    /\ bpc' = "loop"
    /\ UNCHANGED << prog, dir, limit, results, all_devis, all_pieces,
                    all_lignes, errors, output >>
    /\ UNCHANGED parserVars
    /\ UNCHANGED loadVars

\* test_parser_batch.py, lines 28-43, and etl_pipeline.py, lines 81-83: the
\* next file, and a new parser for it (pdf_parser.py, lines 18-20)
LoopBegin ==
    /\ bpc = "loop"
    /\ fi <= Len(pdf_files)
    /\ pdf' = pdf_files[fi]
    /\ data' = NewData
    /\ raised' = None
    /\ pc' = "open"
    /\ bpc' = "parse"
    /\ UNCHANGED << nrows, ri, current_piece, current_category, ntables,
                    hist >>
    /\ UNCHANGED << prog, dir, limit, pdf_files, fi, results, all_devis,
                    all_pieces, all_lignes, errors, output >>
    /\ UNCHANGED loadVars

\* dict.get(key, 0) on the totals
GetOr0(d, k) == IF k \in DOMAIN d THEN d[k] ELSE 0

\* test_parser_batch.py, lines 29-40 and 45-52: the row of a file that was
\* parsed
TestRow(name, d) ==
    [fichier      |-> name,
     succes       |-> TRUE,
     numero_devis |-> Get(d.metadata, "numero_devis"),
     client_nom   |-> Get(d.client, "nom"),
     client_ville |-> Get(d.client, "ville"),
     nb_pieces    |-> Len(d.pieces),
     nb_lignes    |-> Len(d.lignes),
     montant_ht   |-> GetOr0(d.montants, "total_ht"),
     montant_ttc  |-> GetOr0(d.montants, "total_ttc"),
     erreur       |-> None]

\* test_parser_batch.py, lines 29-40 and 54-55: the row of a file whose
\* parse raised e
FailRow(name, e) ==
    [fichier      |-> name,
     succes       |-> FALSE,
     numero_devis |-> None,
     client_nom   |-> None,
     client_ville |-> None,
     nb_pieces    |-> 0,
     nb_lignes    |-> 0,
     montant_ht   |-> 0,
     montant_ttc  |-> 0,
     erreur       |-> Some(e)]

\* test_parser_batch.py, lines 45-52 and 57
TestSuccess ==
    /\ prog = "test"
    /\ bpc = "parse"
    /\ pc = "returned"
    /\ results' = Append(results, TestRow(BaseName(pdf.path), data))
    /\ fi' = fi + 1
    /\ bpc' = "loop"
    /\ pc' = "idle"
    /\ UNCHANGED << pdf, data, nrows, ri, current_piece, current_category,
                    ntables, raised, hist >>
    /\ UNCHANGED << prog, dir, limit, pdf_files, all_devis, all_pieces,
                    all_lignes, errors, output >>
    /\ UNCHANGED loadVars

\* test_parser_batch.py, lines 54-57
TestFailure ==
    /\ prog = "test"
    /\ bpc = "parse"
    /\ pc = "raised"
    /\ results' = Append(results, FailRow(BaseName(pdf.path), raised[1]))
    /\ fi' = fi + 1
    /\ bpc' = "loop"
    /\ pc' = "idle"
    /\ UNCHANGED << pdf, data, nrows, ri, current_piece, current_category,
                    ntables, raised, hist >>
    /\ UNCHANGED << prog, dir, limit, pdf_files, all_devis, all_pieces,
                    all_lignes, errors, output >>
    /\ UNCHANGED loadVars

\* test_parser_batch.py, lines 61-107: the statistics, then the report is
\* saved; df['succes'] is a KeyError on a frame without rows
TestStats ==
    /\ prog = "test"
    /\ bpc = "loop"
    /\ fi > Len(pdf_files)
    /\ IF Len(results) = 0
       THEN /\ bpc' = "crashed"
            /\ output' = Some([error |-> "'succes'"])
       ELSE /\ bpc' = "done"
            /\ output' = Some([report |-> results])
    /\ UNCHANGED << prog, dir, limit, pdf_files, fi, results, all_devis,
                    all_pieces, all_lignes, errors >>
    /\ UNCHANGED parserVars
    /\ UNCHANGED loadVars

\* etl_pipeline.py, lines 87-96: the devis record of a file that was parsed
DevisOf(d, path) ==
    Put(Put(Put(Put(Put(d.montants @@ d.client @@ d.metadata,
                        "adresse_chantier", Get(d.chantier, "adresse")),
                    "code_postal_chantier", Get(d.chantier, "code_postal")),
                "ville_chantier", Get(d.chantier, "ville")),
            "pdf_path", path),
        "pdf_hash", d.pdf_info.hash)

\* etl_pipeline.py, lines 100-102 and 105-107: the rows of a file, each with
\* the number of its devis
WithNumero(rows, devis) ==
    [n \in 1 .. Len(rows) |->
        Put(rows[n], "numero_devis", Get(devis, "numero_devis"))]

\* etl_pipeline.py, lines 82-107
EtlSuccess ==
    /\ prog = "etl"
    /\ bpc = "parse"
    /\ pc = "returned"
    /\ \E devis \in {DevisOf(data, pdf.path)} :
          /\ all_devis' = Append(all_devis, devis)
          /\ all_pieces' = all_pieces \o WithNumero(data.pieces, devis)
          /\ all_lignes' = all_lignes \o WithNumero(data.lignes, devis)
    /\ fi' = fi + 1
    /\ bpc' = "loop"
    /\ pc' = "idle"
    /\ UNCHANGED << pdf, data, nrows, ri, current_piece, current_category,
                    ntables, raised, hist >>
    /\ UNCHANGED << prog, dir, limit, pdf_files, results, errors, output >>
    /\ UNCHANGED loadVars

\* a variant that gives the loop up at the first failure
EtlAbort ==
    /\ prog = "etl"
    /\ bpc = "parse"
    /\ pc = "raised"
    /\ errors' = Append(errors, [fichier |-> BaseName(pdf.path),
                                 erreur  |-> raised[1]])
    /\ fi' = Len(pdf_files) + 1
    /\ bpc' = "loop"
    /\ pc' = "idle"
    /\ UNCHANGED << pdf, data, nrows, ri, current_piece, current_category,
                    ntables, raised, hist >>
    /\ UNCHANGED << prog, dir, limit, pdf_files, results, all_devis,
                    all_pieces, all_lignes, output >>
    /\ UNCHANGED loadVars

\* etl_pipeline.py, lines 109-111
EtlFailure ==
    /\ prog = "etl"
    /\ bpc = "parse"
    /\ pc = "raised"
    /\ errors' = Append(errors, [fichier |-> BaseName(pdf.path),
                                 erreur  |-> raised[1]])
    /\ fi' = fi + 1
    /\ bpc' = "loop"
    /\ pc' = "idle"
    /\ UNCHANGED << pdf, data, nrows, ri, current_piece, current_category,
                    ntables, raised, hist >>
    /\ UNCHANGED << prog, dir, limit, pdf_files, results, all_devis,
                    all_pieces, all_lignes, output >>
    /\ UNCHANGED loadVars

\* etl_pipeline.py, lines 113-122
EtlReturn ==
    /\ prog = "etl"
    /\ bpc = "loop"
    /\ fi > Len(pdf_files)
    /\ bpc' = "done"
    /\ output' = Some([devis |-> all_devis, pieces |-> all_pieces,
                       lignes |-> all_lignes, errors |-> errors])
    /\ UNCHANGED << prog, dir, limit, pdf_files, fi, results, all_devis,
                    all_pieces, all_lignes, errors >>
    /\ UNCHANGED parserVars
    /\ UNCHANGED loadVars

(***************************************************************************)
(* SpecBatch: either caller on a directory of at most MaxDocs of these     *)
(* files.                                                                  *)
(***************************************************************************)
OtherTables ==
    << << HeaderRow,
          Cell("1.1.1 Peinture murale 10 m2 25,00 € 10.0 % 250,00 €"),
          Cell("1 Salon - 8 m²") >>,
       << HeaderRow >> >>

BatchDocs ==
    {OnePage(FullText, GoodTables), OnePage(NoText, OtherTables),
     OnePage(NoText, BadPriceTables), NotAPdf}

\* the path of the n-th file of the directory
PathOf(n) == "data/pdfs/devis" \o SubSeq("123456789", n, n) \o ".pdf"

Directories ==
    UNION {{[n \in 1 .. k |-> [docs[n] EXCEPT !.path = PathOf(n)]] :
               docs \in [1 .. k -> BatchDocs]} : k \in 0 .. MaxDocs}

NoFile == File("", BytesOf(<< >>), << >>)

InitBatch ==
    /\ prog \in {"test", "etl"}
    /\ bpc = "start"
    /\ dir \in Directories
    /\ limit \in (IF prog = "test" THEN {Some(1), Some(DefaultLimit)}
                  ELSE {None, Some(1)})
    /\ pdf_files = << >>
    /\ fi = 1
    /\ results = << >>
    /\ all_devis = << >>
    /\ all_pieces = << >>
    /\ all_lignes = << >>
    /\ errors = << >>
    /\ output = None
    /\ pc = "idle"
    /\ pdf = NoFile
    /\ data = NewData
    /\ nrows = 0
    /\ ri = 1
    /\ current_piece = None
    /\ current_category = None
    /\ ntables = 0
    /\ raised = None
    /\ hist = HistInit
    /\ NoLoad

NextBatch ==
    \/ TestStart
    \/ EtlStart
    \/ LoopBegin
    \/ ParseStep
    \/ TestSuccess
    \/ TestFailure
    \/ TestStats
    \/ EtlSuccess
    \/ EtlFailure
    \/ EtlReturn

SpecBatch == InitBatch /\ [][NextBatch]_vars

(***************************************************************************)
(* Properties of the table loop, under SpecTable.                          *)
(***************************************************************************)
\* C1: after any tables and rows of one document, no two sub-areas of the
\* output have the same numero, and the output is, in order, the first
\* header read for each numero: a header whose numero is already there,
\* from this table or an earlier one, adds nothing and changes nothing.
C1_SubAreasUnique ==
    /\ \A m, n \in 1 .. Len(data.pieces) :
          data.pieces[m].numero = data.pieces[n].numero => m = n
    /\ data.pieces = hist.first

\* C1, its case: the last header read, in a second table, repeats the
\* numero of a sub-area of the output with another name and another area
C1_Witness ==
    /\ hist.piece # None
    /\ hist.pieceTable = 2
    /\ Len(data.pieces) = 1
    /\ data.pieces[1].numero = hist.piece[1].numero
    /\ data.pieces[1].nom # hist.piece[1].nom
    /\ data.pieces[1].surface # hist.piece[1].surface

\* the priced line the step has appended
NewLigne == data'.lignes[Len(data'.lignes)]

\* the step appends to the priced lines
LigneAppended ==
    /\ pc = "rows"
    /\ Len(data'.lignes) = Len(data.lignes) + 1

\* C2: the current sub-area and the current category live as long as the
\* document, not the table: a priced line carries the category, and the
\* name and the area of the sub-area, of the last header read before it in
\* the document, also when that header stood in an earlier table.
C2_CarriedAcrossTables ==
    [][LigneAppended =>
         /\ NewLigne.categorie = hist.cat
         /\ NewLigne.piece =
               (IF hist.piece = None THEN None
                ELSE Some(hist.piece[1].nom))
         /\ NewLigne.surface_piece =
               (IF hist.piece = None THEN None
                ELSE Some(hist.piece[1].surface))]_vars

FirstPageLines == SplitLines(pdf.pages[1].text)

\* the line matches the anchor of strategy 1 (line 81)
TitledName(line) == Search(PrefixNamePattern, Strip(line)).ok

\* the line matches the anchor of strategy 3 (line 116)
BareName(line) == Match(BareNamePattern, Strip(line)).ok

\* C3: when a line of the first page matches the anchor of strategy 1 and
\* another line matches the anchor of strategy 3, the name of the client is
\* the one strategy 1 gives, whichever of the two lines comes first.
C3_TitledNameWins ==
    pc = "tables" =>
       \A i, j \in 1 .. Len(FirstPageLines) :
          (/\ i # j
           /\ TitledName(FirstPageLines[i])
           /\ BareName(FirstPageLines[j]))
          => \E k \in 1 .. Len(FirstPageLines) :
                /\ TitledName(FirstPageLines[k])
                /\ Get(data.client, "nom") =
                      Some(Strip(Search(PrefixNamePattern,
                                        Strip(FirstPageLines[k])).g[2]))

(***************************************************************************)
(* Properties of parse, under SpecParse.                                   *)
(***************************************************************************)
\* the text under the label has the shape of a date and is no date
BadDate(text, label) ==
    /\ Search(DatePattern(label), text).ok
    /\ ~Strptime(Search(DatePattern(label), text).g[1]).ok

\* the file can be opened and has a page
HasPages(file) == file.readable /\ Len(file.pages) > 0

\* C7: when the text under "En date du" or under "valable jusqu'au" has
\* the shape of a date and is no calendar date, parse raises nothing, the
\* date is left out of the metadata, and the other metadata are there.
C7_BadDateLeftOut ==
    (HasPages(pdf) /\ pc # "open") =>
       \A rule \in {<< "En date du", "date_devis" >>,
                    << "valable jusqu'au", "date_validite" >>} :
          BadDate(pdf.pages[1].text, rule[1]) =>
             /\ pc # "raised"
             /\ rule[2] \notin DOMAIN data.metadata
             /\ Search(NumeroPattern, pdf.pages[1].text).ok
                   => "numero_devis" \in DOMAIN data.metadata

\* C8: a number a row pattern or a totals pattern has captured and float()
\* cannot read is a miss of that field or row: no error of float() leaves
\* parse.
C8_BadNumberLeftOut ==
    pc = "raised" =>
       ~LitAt(raised[1], 1, "could not convert string to float")

\* the row matches none of the three row patterns
RowMatchesNothing(row) ==
    \/ RowSkipped(row)
    \/ /\ ~Match(PiecePattern, RowLine(row)).ok
       /\ ~Match(CatPattern, RowLine(row)).ok
       /\ ~Match(LignePattern, RowLine(row)).ok

\* no pattern of any extractor matches in the first page, in the last page
\* or in a row of a table of the file
NothingMatches(file) ==
    /\ HasPages(file)
    /\ ~Search(NumeroPattern, file.pages[1].text).ok
    /\ ~Search(DatePattern("En date du"), file.pages[1].text).ok
    /\ ~Search(DatePattern("valable jusqu'au"), file.pages[1].text).ok
    /\ \A n \in 1 .. Len(SplitLines(file.pages[1].text)) :
          Anchor(Strip(SplitLines(file.pages[1].text)[n])) = 0
    /\ ~Search(ChantierPattern, file.pages[1].text).ok
    /\ \A n \in 1 .. 4 :
          ~Search(MontantPatterns[n], file.pages[Len(file.pages)].text).ok
    /\ \A t \in 1 .. Len(TablesOf(file)) :
          \A r \in 1 .. Len(TablesOf(file)[t]) :
             RowMatchesNothing(TablesOf(file)[t][r])

\* C9: on a file that can be read and in which nothing matches, parse
\* raises nothing and returns no number and no dates, a client that has
\* only type_client = PARTICULIER, an empty chantier, no sub-area, no
\* priced line, no total and no surface_totale, and the hash of the file.
C9_EmptyRecord ==
    NothingMatches(pdf) =>
       /\ pc # "raised"
       /\ pc = "returned" =>
             /\ data.metadata = << >>
             /\ data.client = [type_client |-> "PARTICULIER"]
             /\ data.chantier = << >>
             /\ data.pieces = << >>
             /\ data.lignes = << >>
             /\ data.montants = << >>
             /\ data.pdf_info.hash = CalculatePdfHash(pdf.bytes)
             /\ data.pdf_info.hash # None

\* C9, its case: parse has returned from a file with a text and two tables
\* in which nothing matches
C9_Witness ==
    /\ pc = "returned"
    /\ NothingMatches(pdf)
    /\ pdf.pages[1].text # ""
    /\ ntables = 2
    /\ DOMAIN data.client = {"type_client"}

(***************************************************************************)
(* parse as a function of the file: what a parser that has read no other   *)
(* file returns, or raises, on it (lines 22-50).                           *)
(***************************************************************************)
\* lines 154-215: the loop over the rows of a table, from row r
RECURSIVE RowsFrom(_, _, _)
RowsFrom(table, r, ps) ==
    IF r > Len(table) THEN [error |-> None, ps |-> ps]
    ELSE IF Reading(table[r]).error # None
    THEN [error |-> Reading(table[r]).error, ps |-> ps]
    ELSE RowsFrom(table, r + 1, RowEffect(ps, Reading(table[r])))

\* lines 42-45 and 148-152: the loop over the tables, from table t
RECURSIVE TablesFold(_, _, _)
TablesFold(tables, t, out) ==
    IF t > Len(tables) \/ out.error # None THEN out
    ELSE IF Len(tables[t]) < 2 THEN TablesFold(tables, t + 1, out)
    ELSE TablesFold(tables, t + 1,
            Bind(RowsFrom(tables[t], 1,
                          [pieces |-> out.pieces, lignes |-> out.lignes,
                           current_piece |-> None,
                           current_category |-> None]),
                 LAMBDA r : [error |-> r.error, pieces |-> r.ps.pieces,
                             lignes |-> r.ps.lignes]))

Raises(e) == [ok |-> FALSE, error |-> e, data |-> << >>]

ParseDoc(file) ==
    IF ~file.readable THEN Raises(OpenError)
    ELSE IF Len(file.pages) = 0 THEN Raises(IndexError)
    ELSE IF PageReading(file.pages[1].text).metadata.error # None
    THEN Raises(PageReading(file.pages[1].text).metadata.error[1])
    ELSE Bind(TablesFold(TablesOf(file), 1,
                         [error |-> None, pieces |-> << >>,
                          lignes |-> << >>]), LAMBDA out :
         Bind(PageReading(file.pages[Len(file.pages)].text).montants,
              LAMBDA c :
            IF out.error # None THEN Raises(out.error[1])
            ELSE IF MontantsError(c) # None THEN Raises(MontantsError(c)[1])
            ELSE [ok |-> TRUE, error |-> "",
                  data |->
                     [metadata |->
                         PageReading(file.pages[1].text).metadata.value,
                      client |-> PageReading(file.pages[1].text).client,
                      chantier |-> PageReading(file.pages[1].text).chantier,
                      pieces |-> out.pieces,
                      lignes |-> out.lignes,
                      montants |-> MontantsOf(c, out.pieces),
                      pdf_info |->
                         [path |-> file.path,
                          hash |-> CalculatePdfHash(file.bytes)]]]))

(***************************************************************************)
(* Properties of the batch callers, under SpecBatch.                       *)
(***************************************************************************)
\* the report row of a file parsed by a parser that has read no other file
RowAlone(file) ==
    IF ParseDoc(file).ok
    THEN TestRow(BaseName(file.path), ParseDoc(file).data)
    ELSE FailRow(BaseName(file.path), ParseDoc(file).error)

\* what extract_pdfs has collected after the first n files, had each been
\* parsed by a parser that has read no other file
RECURSIVE EtlAlone(_, _)
EtlAlone(files, n) ==
    IF n = 0
    THEN [devis |-> << >>, pieces |-> << >>, lignes |-> << >>,
          errors |-> << >>]
    ELSE LET prev == EtlAlone(files, n - 1)
             r == ParseDoc(files[n])
             devis == DevisOf(r.data, files[n].path)
         IN  IF r.ok
             THEN [devis  |-> Append(prev.devis, devis),
                   pieces |-> prev.pieces \o WithNumero(r.data.pieces, devis),
                   lignes |-> prev.lignes \o WithNumero(r.data.lignes, devis),
                   errors |-> prev.errors]
             ELSE [prev EXCEPT !.errors =
                      Append(@, [fichier |-> BaseName(files[n].path),
                                 erreur  |-> r.error])]

\* C4: test_parser_batch, on any directory of N files of which any fail to
\* parse, completes, and its report has exactly N rows, one for each file
\* in the order of the files; a row has succes = False and an error text
\* that is not empty exactly when its file raised, and succes = True and no
\* error text otherwise.
C4_FullReport ==
    prog = "test" =>
       /\ bpc # "crashed"
       /\ bpc = "done" =>
             /\ output # None
             /\ DOMAIN output[1] = {"report"}
             /\ Len(output[1].report) = Len(dir)
             /\ \A n \in 1 .. Len(dir) :
                   /\ output[1].report[n].fichier = BaseName(dir[n].path)
                   /\ output[1].report[n].succes = ParseDoc(dir[n]).ok
                   /\ output[1].report[n].succes
                         => output[1].report[n].erreur = None
                   /\ ~output[1].report[n].succes
                         => /\ output[1].report[n].erreur # None
                            /\ output[1].report[n].erreur[1] # ""

\* the files of pdf_files whose parse returns
Parsed(n) == {k \in 1 .. n : ParseDoc(pdf_files[k]).ok}

C5_Outcomes ==
    prog = "etl" =>
       /\ bpc # "crashed"
       /\ bpc # "done" => ENABLED NextBatch
       /\ Len(all_devis) + Len(errors) = fi - 1
       /\ Len(all_devis) = Cardinality(Parsed(fi - 1))
       /\ errors = EtlAlone(pdf_files, fi - 1).errors
       /\ \A n \in 1 .. Len(errors) :
             /\ errors[n].fichier # ""
             /\ errors[n].erreur # ""
       /\ bpc = "done" =>
             /\ fi - 1 = Len(pdf_files)
             /\ limit = None => pdf_files = dir
             /\ output = Some([devis |-> all_devis, pieces |-> all_pieces,
                               lignes |-> all_lignes, errors |-> errors])

C5_FailureStep ==
    (prog = "etl" /\ bpc = "parse" /\ pc = "raised") =>
       /\ errors' = Append(errors, [fichier |-> BaseName(pdf.path),
                                    erreur  |-> raised[1]])
       /\ all_devis' = all_devis
       /\ all_pieces' = all_pieces
       /\ all_lignes' = all_lignes
       /\ fi' = fi + 1
       /\ bpc' = "loop"

\* C5: in extract_pdfs a file whose parse fails never ends the loop: every
\* file the call loops over (all the files of the directory when no limit
\* is given) gives one outcome, a devis record or an error entry with the
\* name of the file and the message, so that devis and errors together
\* count the files; a file that fails adds no sub-area row and no priced
\* line row; and the files after it are processed.
C5_FailureIsAnEntry == []C5_Outcomes /\ [][C5_FailureStep]_vars

\* C5, its case: the call has returned from a directory of two files, the
\* first of which failed after a sub-area header was read and the second of
\* which was parsed
C5_Witness ==
    /\ prog = "etl"
    /\ bpc = "done"
    /\ limit = None
    /\ Len(dir) = 2
    /\ dir[1].readable
    /\ Len(errors) = 1
    /\ errors[1].fichier = "devis1.pdf"
    /\ Len(all_devis) = 1
    /\ all_devis[1].pdf_path = "data/pdfs/devis2.pdf"
    /\ Len(all_lignes) = 1

\* C6: nothing of the parse of a file reaches the parse of another: what
\* parse returns or raises for a file in a batch, and what the batch keeps
\* of it, is what a parser that has read no other file gives for that file,
\* whatever files came before it; the sub-areas, the current sub-area and
\* the current category of a file are not in the output of another, and do
\* not hide a sub-area of another.
C6_AsParsedAlone ==
    /\ pc = "returned" => (ParseDoc(pdf).ok /\ data = ParseDoc(pdf).data)
    /\ pc = "raised"
          => (~ParseDoc(pdf).ok /\ raised = Some(ParseDoc(pdf).error))
    /\ prog = "test"
          => results = [n \in 1 .. fi - 1 |-> RowAlone(pdf_files[n])]
    /\ prog = "etl"
          => /\ all_devis = EtlAlone(pdf_files, fi - 1).devis
             /\ all_pieces = EtlAlone(pdf_files, fi - 1).pieces
             /\ all_lignes = EtlAlone(pdf_files, fi - 1).lignes

\* C6, its case: the second file of a batch, whose first priced line comes
\* before any header and whose sub-area has the number of a sub-area of the
\* first file, has been parsed after a file that left a current sub-area
\* and a current category
C6_Witness ==
    /\ bpc = "parse"
    /\ fi = 2
    /\ pc = "returned"
    /\ pdf_files[1].pages # << >>
    /\ pdf_files[1].pages[1].tables = GoodTables
    /\ Len(data.lignes) = 1
    /\ data.lignes[1].piece = None
    /\ data.lignes[1].categorie = None
    /\ Len(data.pieces) = 1
    /\ data.pieces[1].numero = "1"
    /\ data.pieces[1].nom = "Salon"

(***************************************************************************)
(* Further properties of the client extractor.                             *)
(***************************************************************************)
\* the text is five digits and nothing else
FiveDigits(txt) ==
    /\ Len(txt) = 5
    /\ \A n \in 1 .. 5 : Ch(txt, n) \in Digit

\* C11: whatever the lines of the first page and whichever strategy fires,
\* a code_postal that is in the result is exactly five digits: never a
\* word, a longer run of digits or any other first token of the line.
C11_PostalFiveDigits ==
    pc = "tables" =>
       ("code_postal" \in DOMAIN data.client
           => FiveDigits(data.client.code_postal))

(***************************************************************************)
(* SpecLookahead: the first page of a file whose text is a line with a     *)
(* civility title and a name and, after it, at most MaxAfter lines that    *)
(* are blank, a street or a postal code and a city, or at most MaxLines    *)
(* lines that may also hold the name of the issuer.                        *)
(***************************************************************************)
LookaheadHead == "Mme Marie Dupont"

LookaheadLines == {"", "12 rue des Fleurs", "75001 Paris"}

IssuerLine == "RAPIDO 75001 X"

\* the first page of the end-to-end scenario
ScenarioText ==
    "N° D202501-001\nEn date du 15/01/2025\nMme Marie Dupont\n"
    \o "12 rue des Fleurs\n75001 Paris"

LookaheadTexts ==
    {JoinWith(<< LookaheadHead >> \o ls, "\n") :
        ls \in UNION {[1 .. n -> LookaheadLines] : n \in 0 .. MaxAfter}}
    \cup {JoinWith(<< LookaheadHead >> \o ls, "\n") :
             ls \in UNION {[1 .. n -> LookaheadLines \cup {IssuerLine}] :
                              n \in 0 .. MaxLines}}
    \cup {ScenarioText}

InitLookahead ==
    /\ pc = "open"
    /\ \E text \in LookaheadTexts :
          pdf = File("devis.pdf", BytesOf(<< Page(text, << >>) >>),
                     << Page(text, << >>) >>)
    /\ data = NewData
    /\ nrows = 0
    /\ ri = 1
    /\ current_piece = None
    /\ current_category = None
    /\ ntables = 0
    /\ raised = None
    /\ hist = HistInit
    /\ NoBatch
    /\ NoLoad

NextLookahead == ParseOpen

SpecLookahead == InitLookahead /\ [][NextLookahead]_vars

\* the lines of a text, each without the white space around it
StrippedLines(text) ==
    [n \in 1 .. Len(SplitLines(text)) |-> Strip(SplitLines(text)[n])]

\* the line at which the loop over the lines stops, 0 when it stops at none
AnchorLine(lines) ==
    IF \E i \in 1 .. Len(lines) : Anchor(lines[i]) # 0
    THEN Least({i \in 1 .. Len(lines) : Anchor(lines[i]) # 0})
    ELSE 0

\* the lines the lookahead of strategy 1 examines after line i and does
\* not skip: among the five next lines, those that are not blank and hold
\* no marker
Examined(lines, i) ==
    {j \in i + 1 .. i + 5 :
        /\ j <= Len(lines)
        /\ lines[j] # ""
        /\ \A k \in 1 .. Len(lines[j]) :
              /\ ~LitAt(lines[j], k, "SIRET")
              /\ ~LitAt(lines[j], k, "RAPIDO")}

\* the text starts with n digits, or with one digit or more when n = 0,
\* and white space after them
StartsWithNumber(txt, n) ==
    \E k \in 1 .. Len(txt) - 1 :
       /\ n = 0 \/ k = n
       /\ \A d \in 1 .. k : Ch(txt, d) \in Digit
       /\ Ch(txt, k + 1) \in Blank

\* the least line of S, 0 when S is empty
FirstOf(S) == IF S = {} THEN 0 ELSE Least(S)

\* the first examined line that starts with a number
StreetLine(lines, ex) ==
    FirstOf({j \in ex : StartsWithNumber(lines[j], 0)})

\* the first examined line that starts with five digits and was not taken
\* as the address
CityLine(lines, ex, street) ==
    FirstOf({j \in ex : j # street /\ StartsWithNumber(lines[j], 5)})

\* what C12 says of the client, for the stripped lines, the line i of the
\* anchor, the line of the street and the line of the city
LookaheadResult(client, lines, i, street, city) ==
    /\ DOMAIN client =
          {"nom", "type_client"}
          \cup (IF street # 0 THEN {"adresse"} ELSE {})
          \cup (IF city # 0 THEN {"code_postal", "ville"} ELSE {})
    /\ street # 0 => client.adresse = lines[street]
    /\ city # 0 =>
          /\ client.code_postal = SubSeq(lines[city], 1, 5)
          /\ client.ville = Strip(SubSeq(lines[city], 6, Len(lines[city])))
          /\ street < city

\* C12: after a line i at which strategy 1 fires, only the five next lines
\* are examined, blank lines and lines with a marker are skipped, the first
\* examined line that starts with a number becomes the address, the first
\* examined line that starts with five digits and was not taken as the
\* address gives the postal code, its five digits, and the city, the rest
\* of it, and ends the scan; the result has these keys and no other.
C12_Lookahead ==
    pc = "tables" =>
       LET lines == StrippedLines(pdf.pages[1].text)
           i == AnchorLine(lines)
           ex == Examined(lines, i)
           street == StreetLine(lines, ex)
           city == CityLine(lines, ex, street)
       IN  (i # 0 /\ Anchor(lines[i]) = 1)
              => LookaheadResult(data.client, lines, i, street, city)

\* C12, its case: the first page of the end-to-end scenario has given the
\* name, the address, the postal code and the city of its three lines
C12_Witness ==
    /\ pc = "tables"
    /\ pdf.pages[1].text = ScenarioText
    /\ data.metadata.numero_devis = "D202501-001"
    /\ data.metadata.date_devis = [year |-> 2025, month |-> 1, day |-> 15]
    /\ data.client = [nom |-> "Marie Dupont", adresse |-> "12 rue des Fleurs",
                      code_postal |-> "75001", ville |-> "Paris",
                      type_client |-> "PARTICULIER"]


(***************************************************************************)
(* SpecMontants: parse on files of one page whose text holds, for each of  *)
(* the four totals, no line or one line with an amount.                    *)
(***************************************************************************)
TotalLabels == << "Total net HT", "TVA (10.0%)", "TVA (20.0%)", "Total TTC" >>

\* the amounts written, each with the number it is, in hundredths
Amounts ==
    {<< "1 000,00", 100000 >>, << "250,00", 25000 >>, << "25,00", 2500 >>,
     << "50,00", 5000 >>, << "1 100,00", 110000 >>}

\* what is written after each label: nothing (""), an amount, or, for the
\* last label, a text float() refuses
AmountChoices ==
    << {"", "1 000,00", "250,00"}, {"", "25,00"}, {"", "50,00"},
       {"", "1 100,00", "1,2,3"} >>

TotalLine(n, amount) == TotalLabels[n] \o " " \o amount \o " €"

TotalsText(choice) ==
    JoinWith(SelectSeq([n \in 1 .. 4 |->
                           IF choice[n] = "" THEN ""
                           ELSE TotalLine(n, choice[n])],
                       LAMBDA l : l # ""),
             "\n")

MontantTexts ==
    {TotalsText(<< a, b, c, d >>) :
        a \in AmountChoices[1], b \in AmountChoices[2],
        c \in AmountChoices[3], d \in AmountChoices[4]}

ScenarioCText == "Total net HT 1 000,00 €\nTotal TTC 1 100,00 €"

InitMontants ==
    /\ pc = "open"
    /\ pdf \in {OnePage(text, tables) :
                   text \in MontantTexts,
                   tables \in {NoTables, GoodTables, BadAreaTables,
                               NoiseTables}}
    /\ data = NewData
    /\ nrows = 0
    /\ ri = 1
    /\ current_piece = None
    /\ current_category = None
    /\ ntables = 0
    /\ raised = None
    /\ hist = HistInit
    /\ NoBatch
    /\ NoLoad

NextMontants == ParseStep

SpecMontants == InitMontants /\ [][NextMontants]_vars

\* the text of the last page of the file
LastPageText == pdf.pages[Len(pdf.pages)].text

\* what C13 says of the totals returned for the text of the last page
TotalsAsFound(montants, text) ==
    \A n \in 1 .. 4 :
       /\ MontantKeys[n] \in DOMAIN montants
             <=> Search(MontantPatterns[n], text).ok
       /\ \A a \in Amounts :
             (\E k \in 1 .. Len(SplitLines(text)) :
                 SplitLines(text)[k] = TotalLine(n, a[1]))
             => /\ MontantKeys[n] \in DOMAIN montants
                /\ montants[MontantKeys[n]] = a[2]

\* C13: in the record parse returns, each of the four totals is present
\* exactly when its own pattern matches the text of the last page, whatever
\* the three others do, with the number written after its label; a total
\* whose label is not found is absent, not zero.
C13_TotalsIndependent ==
    pc = "returned" => TotalsAsFound(data.montants, LastPageText)

\* C13, its case: scenario C, the net and the gross total found, the two
\* taxes absent
C13_Witness ==
    /\ pc = "returned"
    /\ LastPageText = ScenarioCText
    /\ data.montants = [total_ht |-> 100000, total_ttc |-> 110000]

(***************************************************************************)
(* The total area, under SpecTable.                                        *)
(***************************************************************************)
\* the sum of the areas of the sub-areas at the places S of pieces
RECURSIVE AreaOver(_, _)
AreaOver(pieces, S) ==
    IF S = {} THEN 0
    ELSE LET n == CHOOSE m \in S : TRUE
         IN  pieces[n].surface + AreaOver(pieces, S \ {n})

\* C14: in the record parse returns, surface_totale is the sum of the areas
\* of the sub-areas of the output, which are the first header read for each
\* numero in all the tables: a header whose numero was already there adds
\* nothing to it; it is absent when the output has no sub-area.
C14_TotalArea ==
    pc = "returned" =>
       /\ data.pieces = hist.first
       /\ IF Len(data.pieces) = 0
          THEN "surface_totale" \notin DOMAIN data.montants
          ELSE /\ "surface_totale" \in DOMAIN data.montants
               /\ data.montants.surface_totale
                     = AreaOver(hist.first, 1 .. Len(hist.first))

\* C14, its case: the headers "1 Cuisine - 12.5 m2", "2 Salon - 20 m2" and
\* then "1 Salon - 8 m2", whose numero is already in the output: the total
\* is 32.5
C14_Witness ==
    /\ pc = "returned"
    /\ data.pieces = << [numero |-> "1", nom |-> "Cuisine", surface |-> 1250],
                        [numero |-> "2", nom |-> "Salon", surface |-> 2000] >>
    /\ hist.piece = Some([numero |-> "1", nom |-> "Salon", surface |-> 800])
    /\ data.montants = [surface_totale |-> 3250]

(***************************************************************************)
(* SpecHash: extract_pdfs on two files whose bytes are any two of a few    *)
(* streams, as long as MaxChunks blocks and a byte, some of them alike but *)
(* for one byte.                                                           *)
(***************************************************************************)
MaxChunks == 2

\* a stream of n bytes
Stream(n) == [k \in 1 .. n |-> (7 * k) % 256]

\* the same stream but for the byte at pos
Flip(bytes, pos) == [bytes EXCEPT ![pos] = (@ + 1) % 256]

\* the lengths around the ends of the blocks
StreamLengths ==
    {n \in UNION {{k * ChunkSize - 1, k * ChunkSize, k * ChunkSize + 1} :
                     k \in 0 .. MaxChunks} : n >= 0}

LongStream == Stream(MaxChunks * ChunkSize + 1)

ByteStreams ==
    {Stream(n) : n \in StreamLengths}
    \cup {Flip(LongStream, pos) :
             pos \in {1, ChunkSize, ChunkSize + 1, Len(LongStream)}}

HashDirectories ==
    {<< File(PathOf(1), a, << Page(NoText, NoTables) >>),
        File(PathOf(2), b, << Page(NoText, NoTables) >>) >> :
        a \in ByteStreams, b \in ByteStreams}

InitHash ==
    /\ prog = "etl"
    /\ bpc = "start"
    /\ dir \in HashDirectories
    /\ limit = None
    /\ pdf_files = << >>
    /\ fi = 1
    /\ results = << >>
    /\ all_devis = << >>
    /\ all_pieces = << >>
    /\ all_lignes = << >>
    /\ errors = << >>
    /\ output = None
    /\ pc = "idle"
    /\ pdf = NoFile
    /\ data = NewData
    /\ nrows = 0
    /\ ri = 1
    /\ current_piece = None
    /\ current_category = None
    /\ ntables = 0
    /\ raised = None
    /\ hist = HistInit
    /\ NoLoad

NextHash ==
    \/ EtlStart
    \/ LoopBegin
    \/ ParseOpen
    \/ DocTablesEnd
    \/ DocMontants
    \/ EtlSuccess
    \/ EtlReturn

SpecHash == InitHash /\ [][NextHash]_vars

\* C15: the hash of every file of the output is the digest of its whole
\* stream of bytes fed at once, whatever the blocks it was read in, and two
\* files of the output have the same hash exactly when they have the same
\* bytes, whatever their paths: the same for identical bytes, another one
\* as soon as one byte differs.
C15_HashOfBytes ==
    \A m, n \in 1 .. Len(all_devis) :
       /\ all_devis[m].pdf_path = pdf_files[m].path
       /\ all_devis[m].pdf_hash
             = HexDigest(Sha256Update(<< >>, pdf_files[m].bytes))
       /\ (all_devis[m].pdf_hash = all_devis[n].pdf_hash)
             <=> pdf_files[m].bytes = pdf_files[n].bytes

\* C15, its case: two files of more than one block that differ in one byte
\* of the second block have two hashes
C15_Witness ==
    /\ Len(all_devis) = 2
    /\ all_devis[1].pdf_path # all_devis[2].pdf_path
    /\ pdf_files[1].bytes = LongStream
    /\ pdf_files[2].bytes = Flip(LongStream, ChunkSize + 1)
    /\ all_devis[1].pdf_hash # all_devis[2].pdf_hash

(***************************************************************************)
(* The rows of the file, under SpecParse.                                  *)
(***************************************************************************)
\* the rows of the tables, one table after the other
RECURSIVE RowsOf(_)
RowsOf(tables) ==
    IF Len(tables) = 0 THEN << >>
    ELSE tables[1] \o RowsOf(Tail(tables))

\* the output holds the record of a row read as rd
RecordOf(rd) ==
    /\ rd.kind = "piece" =>
          \E n \in 1 .. Len(data.pieces) :
             data.pieces[n].numero = rd.piece[1].numero
    /\ rd.kind = "ligne" =>
          \E n \in 1 .. Len(data.lignes) :
             data.lignes[n].numero_ligne = rd.ligne[1].numero_ligne

\* C16: in the record parse returns, every row of every table of the file
\* that is a sub-area header or a priced line has its record, whatever the
\* number of rows of its table, one row included.
C16_EveryRowClassified ==
    pc = "returned" =>
       \A k \in 1 .. Len(RowsOf(TablesOf(pdf))) :
          RecordOf(Reading(RowsOf(TablesOf(pdf))[k]))

\* the rows of the file read before the current row
RowsBefore ==
    RowsOf(SubSeq(TablesOf(pdf), 1, ntables - 1))
    \o SubSeq(TablesOf(pdf)[ntables], 1, ri - 1)

\* the class of the last header among rows: "piece", "category", or "none"
RECURSIVE LastHeader(_)
LastHeader(rows) ==
    IF Len(rows) = 0 THEN "none"
    ELSE IF Reading(rows[Len(rows)]).kind \in {"piece", "category"}
         THEN Reading(rows[Len(rows)]).kind
         ELSE LastHeader(SubSeq(rows, 1, Len(rows) - 1))

\* C17: a sub-area header ends the category in force: a priced line whose
\* last header before it in the file is a sub-area header carries no
\* category.
C17_CategoryEndsAtSubArea ==
    [][(LigneAppended /\ LastHeader(RowsBefore) = "piece")
          => NewLigne.categorie = None]_vars

RowPatterns == << PiecePattern, CatPattern, LignePattern >>

RowKinds == << "piece", "category", "ligne" >>

\* the class of a row: skipped, or the class of the first pattern that
\* matches its line, or noise when none does
RowClass(row) ==
    IF RowSkipped(row) THEN "skip"
    ELSE LET matched == {n \in 1 .. 3 : Match(RowPatterns[n], RowLine(row)).ok}
         IN  IF matched = {} THEN "noise" ELSE RowKinds[Least(matched)]

\* the same for each row of the vocabulary, computed once
RowClasses == {<< row, RowClass(row) >> : row \in RowVocab}

\* the number of records of the output
Records(d) == Len(d.pieces) + Len(d.lignes)

\* C19: a step of the loop on a row is of the class of the first pattern
\* that matches the row and of no other; a sub-area header adds no line, a
\* category header changes nothing of the output, a priced line adds one
\* line and no sub-area, and no row adds more than one record.
C19_OneClassPerRow ==
    [][\A row \in RowVocab :
          \A kind \in {Reading(row).kind} :
             RowStep(kind, row) =>
                /\ << row, kind >> \in RowClasses
                /\ kind = "piece" =>
                      /\ data'.lignes = data.lignes
                      /\ Len(data'.pieces) \in
                            {Len(data.pieces), Len(data.pieces) + 1}
                /\ kind = "category" => data' = data
                /\ kind = "ligne" =>
                      /\ Len(data'.lignes) = Len(data.lignes) + 1
                      /\ data'.pieces = data.pieces
                /\ Records(data') \in {Records(data), Records(data) + 1}]_vars

\* C19, its case: a table whose first three rows are a sub-area header, a
\* category header and a priced line: two records
C19_Witness ==
    /\ pc = "rows"
    /\ ri = 4
    /\ ntables = 1
    /\ current_piece # None
    /\ current_category # None
    /\ Len(data.pieces) = 1
    /\ Len(data.lignes) = 1

\* the rows of the vocabulary the loop drops: those it skips and those that
\* match none of the three patterns
DroppedRows ==
    {row \in RowVocab :
        << row, "skip" >> \in RowClasses \/ << row, "noise" >> \in RowClasses}

\* C20: a row whose first cell is empty, a row with the header DÉSIGNATION
\* and a row that matches none of the three patterns change nothing: the
\* sub-areas, the priced lines, current_piece and current_category are what
\* they were, and the loop goes on with the next row.
C20_DroppedRowsChangeNothing ==
    [][\A row \in DroppedRows :
          RowStep(Reading(row).kind, row) =>
             /\ data' = data
             /\ current_piece' = current_piece
             /\ current_category' = current_category
             /\ pc' = "rows"
             /\ ri' = ri + 1]_vars

\* C20, its case: the first row of the second table was dropped (a header
\* would have set current_piece or current_category, and the priced line
\* of the output is of the first table), and the output of the first table
\* is as it was
C20_Witness ==
    /\ pc = "rows"
    /\ ntables = 2
    /\ ri = 2
    /\ current_piece = None
    /\ current_category = None
    /\ Len(data.pieces) = 1
    /\ Len(data.lignes) = 1
    /\ data.lignes[1].piece = Some(data.pieces[1].nom)

(***************************************************************************)
(* The scan for the client, under SpecClient.                              *)
(***************************************************************************)
\* what the strategy a gives when its anchor is lines[i]
StrategyAt(lines, i, line_clean, a) ==
    CASE a = 1 -> Strategy1(lines, i, line_clean)
      [] a = 2 -> Strategy2(lines, i, line_clean)
      [] OTHER -> Strategy3(lines, i, line_clean)

\* the lines after the anchor lines[i] that the strategy a reads
Window(i, a) == IF a = 1 THEN i + 1 .. i + 5 ELSE i + 1 .. i + 2

\* the address and the postal line of the client come from the lines the
\* strategy a reads after its anchor lines[i], and are absent when there
\* is no such line
WithinWindow(client, lines, i, a) ==
    /\ "adresse" \in DOMAIN client =>
          \E j \in Window(i, a) : j <= Len(lines) /\ client.adresse = lines[j]
    /\ "code_postal" \in DOMAIN client =>
          \E j \in Window(i, a) :
             /\ j <= Len(lines)
             /\ LitAt(lines[j], 1, client.code_postal)
    /\ "ville" \in DOMAIN client => "code_postal" \in DOMAIN client
    /\ Len(lines) = i => DOMAIN client = {"nom", "type_client"}

\* C21: the client is what the strategy of the first line that matches an
\* anchor gives at that line, and nothing else: no later line is an anchor,
\* no other strategy adds a field, and an address or a postal code that
\* this strategy does not find in the lines it reads stays absent.
C21_FirstAnchorOnly ==
    pc = "tables" =>
       LET lines == StrippedLines(pdf.pages[1].text)
           i == AnchorLine(lines)
       IN  IF i = 0
           THEN data.client = [type_client |-> "PARTICULIER"]
           ELSE /\ data.client =
                      Put(StrategyAt(SplitLines(pdf.pages[1].text), i,
                                     lines[i], Anchor(lines[i])),
                          "type_client", "PARTICULIER")
                /\ WithinWindow(data.client, lines, i, Anchor(lines[i]))

\* C21, its case: strategy 2 stops the scan at "M. DUPONT" and finds no
\* address and no postal code; the next line, "Jean Dupont", is an anchor
\* of strategy 3 with an address after it, and gives nothing
C21_Witness ==
    /\ pc = "tables"
    /\ pdf.pages[1].text = "M. DUPONT\nJean Dupont\n12 rue des Lilas"
    /\ data.client = [nom |-> "DUPONT", type_client |-> "PARTICULIER"]

(***************************************************************************)
(* RapidoDevisETL.load_to_postgres (scripts/etl_pipeline.py, lines         *)
(* 209-443).  A table is the sequence of its rows and the id of a row is   *)
(* its place in it.  NaN and None are None.                                *)
(***************************************************************************)
\* cursor.fetchone() after a SELECT id that matches the rows with these
\* ids: the id of a row found, None when there is none
FetchOne(ids) == IF ids = {} THEN None ELSE Some(Least(ids))

\* value if it is not NaN, else dflt
NotNaOr(value, dflt) == IF value = None THEN dflt ELSE value[1]

\* lines 282-299: INSERT INTO clients ... ON CONFLICT (nom) DO UPDATE SET
\* adresse, ville, wordpress_sync_at
UpsertClientRow(db, row) ==
    LET found == FetchOne({n \in 1 .. Len(db.clients) :
                              db.clients[n].nom = row.nom})
    IN  IF found = None
        THEN [db EXCEPT !.clients =
                 Append(@, [nom         |-> row.nom,
                            prenom      |-> None,
                            adresse     |-> row.adresse,
                            code_postal |-> row.code_postal,
                            ville       |-> row.ville,
                            type_client |-> row.type_client,
                            wordpress_id |-> None,
                            wordpress_sync_at |-> FALSE])]
        ELSE [db EXCEPT !.clients[found[1]] =
                 [@ EXCEPT !.adresse = row.adresse,
                           !.ville = row.ville,
                           !.wordpress_sync_at = TRUE]]

\* lines 310-315: the id of the client of the row
ClientIdOf(db, row) ==
    IF row.nom # None
    THEN FetchOne({n \in 1 .. Len(db.clients) : db.clients[n].nom = row.nom})
    ELSE None

\* lines 317-320: SELECT id FROM devis WHERE numero_devis = %s finds a row;
\* a comparison with NULL finds none
DevisIdOf(db, numero_devis) ==
    IF numero_devis = None THEN None
    ELSE FetchOne({n \in 1 .. Len(db.devis) :
                     db.devis[n].numero_devis = numero_devis})

\* lines 322-371: the row INSERT INTO devis writes
DevisRow(row, client_id) ==
    [numero_devis         |-> row.numero_devis,
     client_id            |-> client_id,
     adresse_chantier     |-> row.adresse_chantier,
     code_postal_chantier |-> row.code_postal_chantier,
     ville_chantier       |-> row.ville_chantier,
     surface_totale       |-> row.surface_totale,
     date_devis           |-> row.date_devis,
     date_validite        |-> row.date_validite,
     statut               |-> row.statut,
     total_ht             |-> NotNaOr(row.total_ht, 0),
     tva_10_pct           |-> NotNaOr(row.tva_10_pct, 0),
     tva_20_pct           |-> NotNaOr(row.tva_20_pct, 0),
     total_ttc            |-> NotNaOr(row.total_ttc, 0),
     passoire_thermique   |-> row.passoire_thermique,
     pdf_path             |-> row.pdf_path,
     pdf_hash             |-> row.pdf_hash]

\* the row written over the row of its number
InsertDevisRowUpdate(db, row) ==
    IF DevisIdOf(db, row.numero_devis) # None
    THEN [db EXCEPT !.devis[DevisIdOf(db, row.numero_devis)[1]] =
             DevisRow(row, ClientIdOf(db, row))]
    ELSE [db EXCEPT !.devis = Append(@, DevisRow(row, ClientIdOf(db, row)))]

\* lines 308-372, one row of the frame: skipped when its number has a row
InsertDevisRow(db, row) ==
    IF DevisIdOf(db, row.numero_devis) # None THEN db
    ELSE [db EXCEPT !.devis = Append(@, DevisRow(row, ClientIdOf(db, row)))]

\* lines 377-388, one row of the frame
InsertPieceRow(db, row) ==
    LET result == DevisIdOf(db, row.numero_devis)
    IN  IF result = None THEN db
        ELSE [db EXCEPT !.pieces_travaux =
                 Append(@, [devis_id  |-> result[1],
                            nom_piece |-> row.nom,
                            surface   |-> row.surface])]

\* lines 401-411: the id of the sub-area of the line
PieceIdOf(db, devis_id, piece) ==
    IF piece = None THEN None
    ELSE FetchOne({n \in 1 .. Len(db.pieces_travaux) :
                     /\ db.pieces_travaux[n].devis_id = devis_id
                     /\ db.pieces_travaux[n].nom_piece = piece[1]})

\* lines 393-423, one row of the frame
InsertLigneRow(db, row) ==
    LET result == DevisIdOf(db, row.numero_devis)
    IN  IF result = None THEN db
        ELSE [db EXCEPT !.lignes_devis =
                 Append(@, [devis_id         |-> result[1],
                            piece_id         |-> PieceIdOf(db, result[1],
                                                           row.piece),
                            numero_ligne     |-> row.numero_ligne,
                            designation      |-> row.designation,
                            description      |-> row.description,
                            categorie        |-> row.categorie,
                            quantite         |-> row.quantite,
                            unite            |-> row.unite,
                            prix_unitaire_ht |-> row.prix_unitaire_ht,
                            taux_tva         |-> row.taux_tva,
                            total_ht         |-> row.total_ht])]

\* lines 428-443, one row of the frame: no client has an email the loader
\* has written, so client_id is NULL; ON CONFLICT DO NOTHING leaves the row
\* out when conflict, which the constraints of the table decide
InsertPaiementRow(db, row, conflict) ==
    IF conflict THEN db
    ELSE [db EXCEPT !.paiements =
             Append(@, [client_id          |-> None,
                        montant            |-> row.montant,
                        wordpress_order_id |-> row.wordpress_order_id])]

\* lines 262-303: the loop of _upsert_clients over the rows of the frame
RECURSIVE UpsertClients(_, _)
UpsertClients(db, df) ==
    IF Len(df) = 0 THEN db
    ELSE UpsertClients(UpsertClientRow(db, df[1]), Tail(df))

\* lines 305-372: the loop of _insert_devis
RECURSIVE InsertDevis(_, _)
InsertDevis(db, df) ==
    IF Len(df) = 0 THEN db
    ELSE InsertDevis(InsertDevisRow(db, df[1]), Tail(df))

\* lines 374-388: the loop of _insert_pieces
RECURSIVE InsertPieces(_, _)
InsertPieces(db, df) ==
    IF Len(df) = 0 THEN db
    ELSE InsertPieces(InsertPieceRow(db, df[1]), Tail(df))

\* lines 390-423: the loop of _insert_lignes
RECURSIVE InsertLignes(_, _)
InsertLignes(db, df) ==
    IF Len(df) = 0 THEN db
    ELSE InsertLignes(InsertLigneRow(db, df[1]), Tail(df))

\* lines 425-443: the loop of _insert_paiements, conflict telling whether
\* the rows are in conflict with rows of the table
RECURSIVE InsertPaiements(_, _, _)
InsertPaiements(db, df, conflict) ==
    IF Len(df) = 0 THEN db
    ELSE InsertPaiements(InsertPaiementRow(db, df[1], conflict), Tail(df),
                         conflict)

(***************************************************************************)
(* The frames load_to_postgres gets: extract_pdfs (line 117-121) makes a   *)
(* frame of each list, a missing key being NaN, and transform_data (lines  *)
(* 150-196) derives the clients and sets statut and passoire_thermique.    *)
(***************************************************************************)
\* lines 117 and 184-186: the row of the devis frame for the dict dv
DevisFrameRow(dv) ==
    [numero_devis         |-> Get(dv, "numero_devis"),
     nom                  |-> Get(dv, "nom"),
     adresse              |-> Get(dv, "adresse"),
     code_postal          |-> Get(dv, "code_postal"),
     ville                |-> Get(dv, "ville"),
     type_client          |-> Get(dv, "type_client"),
     adresse_chantier     |-> dv.adresse_chantier,
     code_postal_chantier |-> dv.code_postal_chantier,
     ville_chantier       |-> dv.ville_chantier,
     surface_totale       |-> Get(dv, "surface_totale"),
     date_devis           |-> Get(dv, "date_devis"),
     date_validite        |-> Get(dv, "date_validite"),
     statut               |-> Some("EN ATTENTE"),
     total_ht             |-> Get(dv, "total_ht"),
     tva_10_pct           |-> Get(dv, "tva_10_pct"),
     tva_20_pct           |-> Get(dv, "tva_20_pct"),
     total_ttc            |-> Get(dv, "total_ttc"),
     passoire_thermique   |-> Some(FALSE),
     pdf_path             |-> Some(dv.pdf_path),
     pdf_hash             |-> Some(dv.pdf_hash)]

\* lines 165-167: the clients of the devis frame: the rows with a name,
\* the first row of each name
ClientsOf(devis) ==
    LET kept == {n \in 1 .. Len(devis) :
                    /\ devis[n].nom # None
                    /\ \A m \in 1 .. n - 1 : devis[m].nom # devis[n].nom}
    IN  [k \in 1 .. Cardinality(kept) |->
            LET n == CHOOSE n \in kept :
                        Cardinality({m \in kept : m < n}) = k - 1
            IN  [nom         |-> devis[n].nom,
                 adresse     |-> devis[n].adresse,
                 code_postal |-> devis[n].code_postal,
                 ville       |-> devis[n].ville,
                 type_client |-> NotNaOr(devis[n].type_client,
                                         "PARTICULIER")]]

\* lines 150-196: the frames transform_data returns for what extract_pdfs
\* has collected and the payments of WordPress
FramesOf(pdf_data, paiements) ==
    LET devis == [n \in 1 .. Len(pdf_data.devis) |->
                     DevisFrameRow(pdf_data.devis[n])]
    IN  [clients   |-> ClientsOf(devis),
         devis     |-> devis,
         pieces    |-> pdf_data.pieces,
         lignes    |-> pdf_data.lignes,
         paiements |-> paiements]

(***************************************************************************)
(* SpecLoad: load_to_postgres, called up to MaxLoads times on one          *)
(* connection, each time with the frames of up to MaxBatch of these files. *)
(***************************************************************************)
MaxLoads == 2

MaxBatch == 2

\* the same number as FullText, another date, another address, no totals
RevisedText ==
    "Devis N° D202501-12\nEn date du 09/01/2025\nMme Claire Martin\n"
    \o "4 rue Neuve\n69003 Lyon"

\* another number, no client
OtherText == "Devis N° D202501-16\nTotal net HT 100,00 €"

LoadFile(n, text, tables) ==
    File(PathOf(n), BytesOf(<< Page(text, tables) >>),
         << Page(text, tables) >>)

FileA == LoadFile(1, FullText, GoodTables)

FileRevised == LoadFile(2, RevisedText, CategoryTables)

FileOther == LoadFile(3, OtherText, LinesTables)

FileNoNumber == LoadFile(4, NoText, GoodTables)

\* the directories of the runs
LoadDirectories ==
    {<< FileA, FileRevised, FileOther >>,
     << FileRevised, FileNoNumber, FileA >>,
     << FileOther, FileA, FileNoNumber >>}

\* what parse returns or raises for each of these files, computed once
LoadParses ==
    {<< file, ParseDoc(file) >> :
        file \in {FileA, FileRevised, FileOther, FileNoNumber}}

ParseOf(file) == (CHOOSE p \in LoadParses : p[1] = file)[2]

\* lines 80-110: what the loop of extract_pdfs has collected after the
\* first n files
RECURSIVE Collected(_, _)
Collected(files, n) ==
    IF n = 0 THEN [devis |-> << >>, pieces |-> << >>, lignes |-> << >>]
    ELSE Bind(Collected(files, n - 1), LAMBDA prev :
         Bind(ParseOf(files[n]), LAMBDA r :
            IF ~r.ok THEN prev
            ELSE Bind(DevisOf(r.data, files[n].path), LAMBDA devis :
                 [devis  |-> Append(prev.devis, devis),
                  pieces |-> prev.pieces \o WithNumero(r.data.pieces, devis),
                  lignes |-> prev.lignes
                             \o WithNumero(r.data.lignes, devis)])))

\* lines 68-72 and 117-121: what extract_pdfs returns for the first lim
\* files of a directory
ExtractPdfs(directory, lim) ==
    Collected(directory, IF lim < Len(directory) THEN lim ELSE Len(directory))

\* line 165: the frame of the devis has the columns of the clients, each a
\* key of the dict of some file; a KeyError is raised otherwise and nothing
\* is loaded
Transformable(pdf_data) ==
    \A column \in {"nom", "adresse", "code_postal", "ville", "type_client"} :
        \E n \in 1 .. Len(pdf_data.devis) :
            column \in DOMAIN pdf_data.devis[n]

\* the frames of the runs, computed once
LoadFrames ==
    {FramesOf(pdf_data, paiements) :
        pdf_data \in {p \in {ExtractPdfs(directory, lim) :
                                directory \in LoadDirectories,
                                lim \in 1 .. MaxBatch} :
                         Transformable(p)},
        paiements \in {<< >>,
                       << [montant |-> 27500,
                           wordpress_order_id |-> 1001] >>}}

\* what a statement the database refuses raises
DatabaseError == "psycopg2.Error"

\* line 218 and the call: a load begins
LoadStart ==
    /\ lpc \in {"idle", "done", "raised"}
    /\ loads < MaxLoads
    /\ frames' \in LoadFrames
    /\ cursor' = "open"
    /\ work' = store
    /\ lraised' = None
    /\ trail' = << >>
    /\ loads' = loads + 1
    /\ lpc' = "clients"
    /\ UNCHANGED store
    /\ UNCHANGED parserVars
    /\ UNCHANGED batchVars

\* lines 221-225: the rows of the clients, the statement of row k + 1
\* raising when k is not the last
LoadClients ==
    /\ lpc = "clients"
    /\ \E k \in 0 .. Len(frames.clients) :
          /\ work' = UpsertClients(work, SubSeq(frames.clients, 1, k))
          /\ IF k = Len(frames.clients)
             THEN /\ lpc' = "devis"
                  /\ trail' = Append(trail, "clients")
                  /\ UNCHANGED lraised
             ELSE /\ lpc' = "except"
                  /\ lraised' = Some(DatabaseError)
                  /\ UNCHANGED trail
    /\ UNCHANGED << frames, store, cursor, loads >>
    /\ UNCHANGED parserVars
    /\ UNCHANGED batchVars

\* lines 227-231
LoadDevis ==
    /\ lpc = "devis"
    /\ \E k \in 0 .. Len(frames.devis) :
          /\ work' = InsertDevis(work, SubSeq(frames.devis, 1, k))
          /\ IF k = Len(frames.devis)
             THEN /\ lpc' = "pieces"
                  /\ trail' = Append(trail, "devis")
                  /\ UNCHANGED lraised
             ELSE /\ lpc' = "except"
                  /\ lraised' = Some(DatabaseError)
                  /\ UNCHANGED trail
    /\ UNCHANGED << frames, store, cursor, loads >>
    /\ UNCHANGED parserVars
    /\ UNCHANGED batchVars

\* lines 233-237
LoadPieces ==
    /\ lpc = "pieces"
    /\ \E k \in 0 .. Len(frames.pieces) :
          /\ work' = InsertPieces(work, SubSeq(frames.pieces, 1, k))
          /\ IF k = Len(frames.pieces)
             THEN /\ lpc' = "lignes"
                  /\ trail' = Append(trail, "pieces")
                  /\ UNCHANGED lraised
             ELSE /\ lpc' = "except"
                  /\ lraised' = Some(DatabaseError)
                  /\ UNCHANGED trail
    /\ UNCHANGED << frames, store, cursor, loads >>
    /\ UNCHANGED parserVars
    /\ UNCHANGED batchVars

\* lines 239-243
LoadLignes ==
    /\ lpc = "lignes"
    /\ \E k \in 0 .. Len(frames.lignes) :
          /\ work' = InsertLignes(work, SubSeq(frames.lignes, 1, k))
          /\ IF k = Len(frames.lignes)
             THEN /\ lpc' = "paiements"
                  /\ trail' = Append(trail, "lignes")
                  /\ UNCHANGED lraised
             ELSE /\ lpc' = "except"
                  /\ lraised' = Some(DatabaseError)
                  /\ UNCHANGED trail
    /\ UNCHANGED << frames, store, cursor, loads >>
    /\ UNCHANGED parserVars
    /\ UNCHANGED batchVars

\* lines 245-249
LoadPaiements ==
    /\ lpc = "paiements"
    /\ \E k \in 0 .. Len(frames.paiements), conflict \in BOOLEAN :
          /\ work' = InsertPaiements(work, SubSeq(frames.paiements, 1, k),
                                     conflict)
          /\ IF k = Len(frames.paiements)
             THEN /\ lpc' = "commit"
                  /\ trail' = Append(trail, "paiements")
                  /\ UNCHANGED lraised
             ELSE /\ lpc' = "except"
                  /\ lraised' = Some(DatabaseError)
                  /\ UNCHANGED trail
    /\ UNCHANGED << frames, store, cursor, loads >>
    /\ UNCHANGED parserVars
    /\ UNCHANGED batchVars

\* lines 251-253 and 259-260: the commit, then the cursor is closed
LoadCommit ==
    /\ lpc = "commit"
    /\ store' = work
    /\ cursor' = "closed"
    /\ lpc' = "done"
    /\ UNCHANGED << frames, work, lraised, loads, trail >>
    /\ UNCHANGED parserVars
    /\ UNCHANGED batchVars

\* line 252: the commit raises
LoadCommitFails ==
    /\ lpc = "commit"
    /\ lraised' = Some(DatabaseError)
    /\ lpc' = "except"
    /\ UNCHANGED << frames, store, work, cursor, loads, trail >>
    /\ UNCHANGED parserVars
    /\ UNCHANGED batchVars

\* the handler commits what the transaction holds
LoadExceptCommits ==
    /\ lpc = "except"
    /\ store' = work
    /\ cursor' = "closed"
    /\ lpc' = "raised"
    /\ UNCHANGED << frames, work, lraised, loads, trail >>
    /\ UNCHANGED parserVars
    /\ UNCHANGED batchVars

\* lines 255-260: the rollback, the error raised again, the cursor closed
LoadExcept ==
    /\ lpc = "except"
    /\ work' = store
    /\ cursor' = "closed"
    /\ lpc' = "raised"
    /\ UNCHANGED << frames, store, lraised, loads, trail >>
    /\ UNCHANGED parserVars
    /\ UNCHANGED batchVars

InitLoad ==
    /\ pc = "open"
    /\ pdf = File("devis.pdf", BytesOf(<< >>), << >>)
    /\ data = NewData
    /\ nrows = 0
    /\ ri = 1
    /\ current_piece = None
    /\ current_category = None
    /\ ntables = 0
    /\ raised = None
    /\ hist = HistInit
    /\ NoBatch
    /\ NoLoad

NextLoad ==
    \/ LoadStart
    \/ LoadClients
    \/ LoadDevis
    \/ LoadPieces
    \/ LoadLignes
    \/ LoadPaiements
    \/ LoadCommit
    \/ LoadCommitFails
    \/ LoadExcept

SpecLoad == InitLoad /\ [][NextLoad]_vars

(***************************************************************************)
(* Properties of the loader, under SpecLoad.                               *)
(***************************************************************************)
\* no two rows of devis have the same number, when it is present
OneRowPerNumero(db) ==
    \A m, n \in 1 .. Len(db.devis) :
        (db.devis[m].numero_devis # None
         /\ db.devis[m].numero_devis = db.devis[n].numero_devis) => m = n

\* every row of devis of before is in after, with every column as it was
DevisKept(before, after) ==
    /\ Len(after.devis) >= Len(before.devis)
    /\ \A n \in 1 .. Len(before.devis) : after.devis[n] = before.devis[n]

\* C22: loading is skip-on-duplicate by document number: whatever the loads
\* so far, the table devis has at most one row for each number that is
\* present, in the database and in the transaction, and a step of a load
\* leaves every row devis already has as it was, column by column (the
\* rollback takes the rows of the transaction away and changes none).
C22_SkipOnDuplicate ==
    [][/\ OneRowPerNumero(store')
       /\ OneRowPerNumero(work')
       /\ DevisKept(store, store')
       /\ lpc' # "raised" => DevisKept(work, work')]_vars

\* a second load of a file with the number of a row of devis, another date
\* and no totals, is committed and the row is the one of the first load
C22_Witness ==
    /\ lpc = "done"
    /\ loads = 2
    /\ Len(frames.devis) = 1
    /\ frames.devis[1].numero_devis = Some("D202501-12")
    /\ frames.devis[1].date_devis = Some([year |-> 2025, month |-> 1,
                                          day |-> 9])
    /\ frames.devis[1].total_ht = None
    /\ Len(store.devis) = 1
    /\ store.devis[1].numero_devis = Some("D202501-12")
    /\ store.devis[1].date_devis = Some([year |-> 2025, month |-> 1,
                                         day |-> 5])
    /\ store.devis[1].total_ht = 25000

(***************************************************************************)
(* The back-reference of a line, under SpecTable.                          *)
(***************************************************************************)
\* C23: in every finished record, each line whose sub-area is present names
\* a sub-area of the record's pieces, and the area the line carries is the
\* area of that sub-area.
C23_LineNamesASubArea ==
    pc = "returned" =>
        \A l \in 1 .. Len(data.lignes) :
            data.lignes[l].piece # None =>
                \E p \in 1 .. Len(data.pieces) :
                    /\ data.pieces[p].nom = data.lignes[l].piece[1]
                    /\ Some(data.pieces[p].surface)
                           = data.lignes[l].surface_piece

(***************************************************************************)
(* The transaction of a load, under SpecLoad.                              *)
(***************************************************************************)
\* the steps of a load, in the order of the source
LoadSteps == << "clients", "devis", "pieces", "lignes", "paiements" >>

\* C24: load_to_postgres is all-or-nothing.  The committed tables change in
\* one step only, the commit, which comes after the five steps have passed
\* in the order clients, devis, pieces, lignes, paiements with nothing
\* raised, and writes what the transaction holds; a statement that raises
\* leads to the handler and nowhere else; the handler leaves the committed
\* tables as they were, gives the transaction up, keeps the error for the
\* caller and closes the cursor; the cursor is closed after a commit too,
\* and open in between.
C24_AllOrNothing ==
    [][/\ (store' # store \/ (lpc' = "done" /\ lpc # "done"))
             => /\ lpc = "commit"
                /\ lpc' = "done"
                /\ trail = LoadSteps
                /\ lraised = None
                /\ store' = work
                /\ cursor' = "closed"
       /\ (lraised' # None /\ lraised = None) => lpc' = "except"
       /\ lpc = "except" => /\ lpc' = "raised"
                            /\ lraised' = lraised
                            /\ lraised' # None
                            /\ store' = store
                            /\ work' = store
                            /\ cursor' = "closed"
       /\ lpc' \in {"clients", "devis", "pieces", "lignes", "paiements",
                    "commit", "except"} => cursor' = "open"
       /\ lpc' = "raised" => store' = store]_vars

\* C24, its case: the first load has written clients, devis and sub-areas
\* in the transaction when a statement of the lines raises: the tables are
\* empty as before, the error is kept and the cursor closed
C24_Witness ==
    /\ lpc = "raised"
    /\ loads = 1
    /\ trail = << "clients", "devis", "pieces" >>
    /\ Len(frames.clients) > 0
    /\ Len(frames.pieces) > 0
    /\ Len(frames.lignes) > 0
    /\ lraised = Some(DatabaseError)
    /\ store = EmptyStore
    /\ work = EmptyStore
    /\ cursor = "closed"

(***************************************************************************)
(* A document loaded again, under SpecLoad.                                *)
(***************************************************************************)
\* the number of rows of a table that belong to the devis row devis_id
RowsOfDevis(table, devis_id) ==
    Cardinality({n \in 1 .. Len(table) : table[n].devis_id = devis_id})

\* C25: loading is idempotent for sub-areas and lines: a load adds no row
\* of pieces_travaux and no row of lignes_devis to a devis row that was in
\* the tables before it.
C25_NoRowsForExistingDevis ==
    [][\A devis_id \in 1 .. Len(store.devis) :
          /\ RowsOfDevis(store'.pieces_travaux, devis_id)
                = RowsOfDevis(store.pieces_travaux, devis_id)
          /\ RowsOfDevis(store'.lignes_devis, devis_id)
                = RowsOfDevis(store.lignes_devis, devis_id)]_vars
=============================================================================
